---- MODULE Spec2Model ----
(***************************************************************************)
(* Verification model of kiro.rs: the API-key store, the token-usage       *)
(* ledger and the control-plane sync (SyncManager + DeviceClient).         *)
(*                                                                         *)
(* Conventions: a Rust Option<T> is a sequence of length 0 (None) or 1     *)
(* (Some(x)); a String is a sequence of one-character strings where its    *)
(* characters matter (API keys) and a TLA+ string where only identity      *)
(* matters.  Each subsystem has its own specifications: SpecKeys (key       *)
(* store), SpecLedger (ledger, two request threads), SpecLedgerSeq (ledger, *)
(* one request thread, all record shapes), SpecSync (manager and command    *)
(* handler) and FairSync (device channel with the reconnecting task, under  *)
(* weak fairness).  The variables of the other subsystems stay at their     *)
(* initial values.                                                          *)
(***************************************************************************)
EXTENDS Integers, Sequences, FiniteSets, TLC

VARIABLES
    \* ---- api_key_store.rs : ApiKeyStore ----
    entries,          \* data.entries : Vec<ApiKeyEntry>
    next_id,          \* data.next_id
    keysPath,         \* file_path.is_some()
    keysFile,         \* content of api_keys.json : Option<PersistedApiKeys>
    legacy_api_key,   \* config.json apiKey handed to load_or_migrate
    authResp,         \* response of the authenticate call made since the last mutation
    \* ---- token_usage.rs : TokenUsageTracker ----
    stats,            \* Mutex<PersistedStats>
    usagePath,        \* file_path.is_some()
    usageFile,        \* content of kiro_token_usage.json : Option<json>
    dirty,            \* AtomicBool dirty
    last_save,        \* Mutex<Option<Instant>>
    now,              \* the clock, in seconds
    alive,            \* the tracker exists (FALSE between drop and the next start)
    tpc,              \* where each request thread stands inside record / reset
    top,              \* the operation each request thread is in
    tjson,            \* save's local `json` of each thread
    writeFailed,      \* history: a snapshot write failed since construction
    lastWriteAt,      \* history: time of the latest successful snapshot write
    recWriteGap,      \* history: at the latest write made by record, the time since the write before it
    baseStats,        \* history: the statistics as loaded at construction (default after reset)
    arrivals,         \* history: the records made since construction / the last reset
    nCalls,           \* history: number of record and reset calls (bounds the model)
    nRestarts,        \* history: number of restarts (bounds the model)
    \* ---- sync/websocket.rs : DeviceClient ----
    ws_state,         \* state : RwLock<ConnectionState>
    client,           \* client.is_some() : a Socket.IO client has been connected
    regPending,       \* device:register was emitted and the server has not answered yet
    heartbeats,       \* consecutive_failures of the heartbeat tasks that are running
    ioFailed,         \* history: the latest connection attempt ended with an I/O error
    \* ---- sync/manager.rs : SyncManager ----
    last_sync_version,\* last_sync_version : RwLock<u64>
    credentials,      \* credentials : the ids of the snapshot main.rs hands over
    ppc,              \* position of the start / periodic task
    pafter,           \* where that task continues after connect_and_register returns
    waitLeft,         \* remaining iterations of the registration wait loop
    cyclePulled,      \* history: the get_changes of the current cycle has completed
    cycleEnv,         \* history: the changes the current cycle pulled : Option
    apc,              \* position of the admin POST /sync/now handler
    \* ---- the credential:command handler and its environment ----
    cpc,              \* position of handle_credential_command
    cmd,              \* the payload being handled : Option<DeviceCommand>
    poolRes,          \* history: the pool operation of the command returned Ok : Option
    syncRes,          \* history: the follow-up sync_now returned Ok : Option
    responses,        \* history: credential:response payloads emitted for cmd
    cmdPushes,        \* history: payloads of the push_changes issued since the pool operation
    tickedSinceCmd,   \* history: the periodic interval fired since the pool operation
    pool,             \* MultiTokenManager: each credential id is absent, enabled or disabled
    serverVersion,    \* the control plane's current_version
    \* ---- http_client.rs : SharedProxy ----
    proxy_config,     \* config : RwLock<Option<ProxyConfig>>
    proxy_version,    \* version : AtomicU64
    spc,              \* where each caller stands inside set
    getRes,           \* the value the latest get() returned : Option
    verRes,           \* the value the latest version() returned : Option
    lastOp,           \* history: the operation the latest step belongs to
    lastSet,          \* history: the argument of the latest config write
    setsStarted,      \* history: number of set calls made
    overlapped,       \* history: a set wrote the config while another set was under way
    \* ---- sync/client.rs : retry_with_backoff ----
    retry_config,     \* config : &RetryConfig
    operation_name,   \* the sync-client operation that is retried
    retries,          \* let mut retries
    rpc,              \* where the call stands: "call", "sleep", "done"
    tried,            \* history: the outcome of every attempt of the operation
    slept,            \* history: the delay_ms of every sleep
    returned,          \* what retry_with_backoff returned : Option
    \* ---- sync/socketio_client.rs : SocketIOClient ----
    sio_state,        \* state : Arc<RwLock<ConnectionState>>
    device_info,      \* device_info : Arc<RwLock<Option<DeviceInfo>>>
    registration_notifier,  \* whether a notifier was given to new
    command_sender,   \* whether a command sender was given to new
    retry_delay,      \* let mut retry_delay, in seconds
    first_registration,     \* let mut first_registration
    sio_pc,           \* where the spawned task stands
    sio_event,        \* history: what the latest step of the task did
    attempts,         \* history: number of connect_once calls
    failStreak,       \* history: connect_once calls that failed in a row
    registrations,    \* history: number of device:registered events handled
    notified,         \* history: number of signals sent to the notifier
    failedFirst,       \* history: a connect_once failed before the first registration
    \* ---- main.rs, admin/router.rs, admin/middleware.rs : the admin API ----
    admin_api_key,    \* config.admin_api_key : Option<String>
    sync_config,      \* the sync block of the configuration file
    adm_request,      \* the latest request to /api/admin : Option
    adm_status,       \* the status of the response to it (0 before the first)
    adm_count,        \* history: number of requests answered
    \* ---- api_key_store.rs : list / get views ----
    view_store,       \* data.entries of a store
    view_twin,        \* data.entries of a store that differs in hidden characters only
    view_res,         \* the latest list() / get(id) result of both stores : Option
    \* ---- user_api/handlers.rs : GET /api/user/usage ----
    usage_response,   \* the latest request's headers, status and body : Option
    \* ---- token_usage.rs : get_timeseries_stats ----
    series_records,   \* stats.recent_requests as the call finds it
    series_res,       \* the latest call's granularity and data : Option
    \* ---- the credential pool behind AdminService ----
    cred_pool,        \* the sorted list of credentials : id, priority, disabled
    pool_op,          \* history: the latest pool mutation, its id and whether it returned Ok
    \* ---- Token Manager : ensure_fresh_access_token ----
    access_token,     \* per credential: 0 for a stale token, else the refresh that obtained it
    refresh_lock,     \* per credential: the caller holding its refresh mutex, 0 when free
    fpc,              \* position of each caller inside ensure_fresh_access_token
    fcred,            \* the credential each caller asked for
    fret,             \* what each caller returned : Option (0 for an error)
    refreshes,        \* history: refresh requests sent upstream, per credential
    failures,         \* history: refresh requests that failed, per credential
    parallel,         \* history: refreshes of two credentials were in flight together
    \* ---- Response Translator : streaming mode ----
    sse_events,       \* the SSE events written to the response so far
    sse_open,         \* the content block that is open : Option
    sse_next,         \* the index the next content block gets
    sse_phase,        \* "streaming", or how the stream ended
    \* ---- sync/manager.rs : the responses that carry current_version ----
    vpc,              \* position of the periodic cycle between its two requests
    cycle_resp,       \* the response the periodic task is holding : Option
    now_resp,         \* the get_changes response sync_now is holding : Option
    \* ---- config.json and the three tasks that rewrite it ----------------
    config_file,      \* content of config.json : Option of a Config
    manager_config,   \* SyncManager.config : the SyncConfig held in memory
    cfg_tasks,        \* per writer: position, the document it loaded, its own part
    \* ---- sync/manager.rs : the enabled flag of SyncManager.config --------
    sync_enabled,     \* config.enabled, which is_enabled() returns
    sync_now_res,     \* result of the latest sync_now call : Option
    \* ---- sync/websocket.rs : the emits of the heartbeat task ------------
    hb_log,           \* history: outcome of each device:heartbeat emit, oldest first
    \* ---- admin/handlers.rs : PUT /config/proxy ---------------------------
    put_response,     \* the latest request with the response to it : Option
    put_count,        \* number of PUT /config/proxy requests handled
    \* ---- api_key_store.rs : the calls of add, update and delete ---------
    key_op,           \* history: the latest call and its result : Option
    deleted_ids       \* history: the ids of the entries delete has removed

keyVars == <<entries, next_id, keysPath, keysFile, legacy_api_key, authResp>>

ledgerVars == <<stats, usagePath, usageFile, dirty, last_save, now, alive, tpc, top,
                tjson, writeFailed, lastWriteAt, recWriteGap, baseStats, arrivals,
                nCalls, nRestarts>>

chanVars == <<ws_state, client, regPending, heartbeats, ioFailed>>
taskVars == <<ppc, pafter, waitLeft, cyclePulled, cycleEnv>>
cmdVars == <<cpc, cmd, poolRes, syncRes, responses>>
cmdHist == <<cmdPushes, tickedSinceCmd>>

syncVars == <<chanVars, taskVars, cmdVars, cmdHist, last_sync_version, credentials,
              apc, pool, serverVersion>>

proxyVars == <<proxy_config, proxy_version, spc, getRes, verRes, lastOp, lastSet,
               setsStarted, overlapped>>

retryVars == <<retry_config, operation_name, retries, rpc, tried, slept, returned>>

sioVars == <<sio_state, device_info, registration_notifier, command_sender, retry_delay,
             first_registration, sio_pc, sio_event, attempts, failStreak, registrations,
             notified, failedFirst>>

viewVars == <<view_store, view_twin, view_res>>

usageVars == <<usage_response>>

seriesVars == <<series_records, series_res>>

poolVars == <<cred_pool, pool_op>>

refreshVars == <<access_token, refresh_lock, fpc, fcred, fret, refreshes, failures,
                 parallel>>

sseVars == <<sse_events, sse_open, sse_next, sse_phase>>

versionVars == <<vpc, cycle_resp, now_resp>>

configVars == <<config_file, manager_config, cfg_tasks>>

enabledVars == <<sync_enabled, sync_now_res>>

beatVars == <<hb_log>>

putVars == <<put_response, put_count>>

keyOpVars == <<key_op, deleted_ids>>

\* the state of the clients no admin handler reaches
clientVars == <<retryVars, sioVars, viewVars, usageVars, seriesVars, poolVars, refreshVars, sseVars, versionVars, configVars, enabledVars, beatVars, putVars, keyOpVars>>

adminVars == <<admin_api_key, sync_config, adm_request, adm_status, adm_count>>

\* a step of one subsystem leaves the others alone
KeysOnly == UNCHANGED <<ledgerVars, syncVars, proxyVars, retryVars, sioVars, adminVars, viewVars, usageVars, seriesVars, poolVars, refreshVars, sseVars, versionVars, configVars, enabledVars, beatVars, putVars, keyOpVars>>

LedgerOnly == UNCHANGED <<keyVars, syncVars, proxyVars, retryVars, sioVars, adminVars, viewVars, usageVars, seriesVars, poolVars, refreshVars, sseVars, versionVars, configVars, enabledVars, beatVars, putVars, keyOpVars>>

SyncOnly == UNCHANGED <<keyVars, ledgerVars, proxyVars, retryVars, sioVars, adminVars, viewVars, usageVars, seriesVars, poolVars, refreshVars, sseVars, versionVars, configVars, enabledVars, beatVars, putVars, keyOpVars>>

ProxyOnly == UNCHANGED <<keyVars, ledgerVars, syncVars, retryVars, sioVars, adminVars, viewVars, usageVars, seriesVars, poolVars, refreshVars, sseVars, versionVars, configVars, enabledVars, beatVars, putVars, keyOpVars>>

RetryOnly == UNCHANGED <<keyVars, ledgerVars, syncVars, proxyVars, sioVars, adminVars, viewVars, usageVars, seriesVars, poolVars, refreshVars, sseVars, versionVars, configVars, enabledVars, beatVars, putVars, keyOpVars>>

SioOnly == UNCHANGED <<keyVars, ledgerVars, syncVars, proxyVars, retryVars, adminVars, viewVars, usageVars, seriesVars, poolVars, refreshVars, sseVars, versionVars, configVars, enabledVars, beatVars, putVars, keyOpVars>>

AdminOnly == UNCHANGED <<keyVars, ledgerVars, syncVars, proxyVars, retryVars, sioVars, viewVars, usageVars, seriesVars, poolVars, refreshVars, sseVars, versionVars, configVars, enabledVars, beatVars, putVars, keyOpVars>>

ViewsOnly == UNCHANGED <<keyVars, ledgerVars, syncVars, proxyVars, retryVars, sioVars, adminVars, usageVars, seriesVars, poolVars, refreshVars, sseVars, versionVars, configVars, enabledVars, beatVars, putVars, keyOpVars>>

UsageOnly == UNCHANGED <<keyVars, ledgerVars, syncVars, proxyVars, retryVars, sioVars, adminVars, viewVars, seriesVars, poolVars, refreshVars, sseVars, versionVars, configVars, enabledVars, beatVars, putVars, keyOpVars>>

SeriesOnly == UNCHANGED <<keyVars, ledgerVars, syncVars, proxyVars, retryVars, sioVars, adminVars, viewVars, usageVars, poolVars, refreshVars, sseVars, versionVars, configVars, enabledVars, beatVars, putVars, keyOpVars>>

PoolOnly == UNCHANGED <<keyVars, ledgerVars, syncVars, proxyVars, retryVars, sioVars, adminVars, viewVars, usageVars, seriesVars, refreshVars, sseVars, versionVars, configVars, enabledVars, beatVars, putVars, keyOpVars>>

RefreshOnly == UNCHANGED <<keyVars, ledgerVars, syncVars, proxyVars, retryVars, sioVars, adminVars, viewVars, usageVars, seriesVars, poolVars, sseVars, versionVars, configVars, enabledVars, beatVars, putVars, keyOpVars>>

SseOnly == UNCHANGED <<keyVars, ledgerVars, syncVars, proxyVars, retryVars, sioVars, adminVars, viewVars, usageVars, seriesVars, poolVars, refreshVars, versionVars, configVars, enabledVars, beatVars, putVars, keyOpVars>>

VersionOnly == UNCHANGED <<keyVars, ledgerVars, chanVars, taskVars, cmdVars, cmdHist,
                           credentials, apc, pool, proxyVars, retryVars, sioVars, adminVars, viewVars, usageVars, seriesVars, poolVars, refreshVars, sseVars, configVars, enabledVars, beatVars, putVars, keyOpVars>>

ConfigOnly == UNCHANGED <<keyVars, ledgerVars, syncVars, proxyVars, retryVars, sioVars, adminVars, viewVars, usageVars, seriesVars, poolVars, refreshVars, sseVars, versionVars, enabledVars, beatVars, putVars, keyOpVars>>

EnabledOnly == UNCHANGED <<keyVars, ledgerVars, proxyVars, retryVars, sioVars, adminVars, viewVars, usageVars, seriesVars, poolVars, refreshVars, sseVars, versionVars, configVars, beatVars, putVars, keyOpVars>>

BeatsOnly == UNCHANGED <<keyVars, ledgerVars, proxyVars, retryVars, sioVars, adminVars, viewVars, usageVars, seriesVars, poolVars, refreshVars, sseVars, versionVars, configVars, enabledVars, putVars, keyOpVars>>

PutOnly == UNCHANGED <<keyVars, ledgerVars, syncVars, retryVars, sioVars, adminVars, viewVars, usageVars, seriesVars, poolVars, refreshVars, sseVars, versionVars, enabledVars, beatVars, keyOpVars>>

KeyOpsOnly == UNCHANGED <<ledgerVars, syncVars, proxyVars, retryVars, sioVars, adminVars, viewVars, usageVars, seriesVars, poolVars, refreshVars, sseVars, versionVars, configVars, enabledVars, beatVars, putVars>>

None == << >>
Some(x) == << x >>
IsSome(o) == Len(o) = 1
Unwrap(o) == o[1]

(***************************************************************************)
(* Bounds of the API-key store model                                       *)
(***************************************************************************)
MaxNextId == 3

\* the key strings the operations are tried with: "a", "a " (which trims to
\* "a") and the blank " "
Strs == { <<"a">>, <<"a", " ">>, <<" ">> }
Labels == {"Default"}
LegacyKeys == { <<"a", " ">> }

\* str::trim : strip leading and trailing whitespace
RECURSIVE TrimStart(_)
TrimStart(s) ==
    IF s # << >> /\ Head(s) = " " THEN TrimStart(Tail(s)) ELSE s

RECURSIVE TrimEnd(_)
TrimEnd(s) ==
    IF s # << >> /\ s[Len(s)] = " " THEN TrimEnd(SubSeq(s, 1, Len(s) - 1)) ELSE s

Trim(s) == TrimEnd(TrimStart(s))

\* common::auth::constant_time_eq : equality of the two strings
constant_time_eq(a, b) == a = b

ApiKeyInfo(e) == [id |-> e.id, label |-> e.label]

\* authenticate without the disabled check (a disabled key still matches)
RECURSIVE authenticate_ignoring_disabled(_, _)
authenticate_ignoring_disabled(es, key) ==
    IF es = << >> THEN None
    ELSE IF constant_time_eq(key, Head(es).key)
         THEN Some(ApiKeyInfo(Head(es)))
         ELSE authenticate_ignoring_disabled(Tail(es), key)

\* ApiKeyStore::authenticate : first non-disabled entry whose key matches
RECURSIVE authenticate(_, _)
authenticate(es, key) ==
    IF es = << >> THEN None
    ELSE IF ~Head(es).disabled /\ constant_time_eq(key, Head(es).key)
         THEN Some(ApiKeyInfo(Head(es)))
         ELSE authenticate(Tail(es), key)

\* ApiKeyStore::save : write the whole store; an I/O error is only logged
KeysSave(es, nid, ok) ==
    IF keysPath /\ ok THEN Some([next_id |-> nid, entries |-> es]) ELSE keysFile

NewEntry(id, key, label) ==
    [id |-> id, key |-> key, label |-> label, disabled |-> FALSE]

\* ApiKeyStore::load_or_migrate, as a function of the file and the legacy key
LoadOrMigrate(file, legacy, hasPath) ==
    IF hasPath /\ IsSome(file)
    THEN [entries |-> Unwrap(file).entries, next_id |-> Unwrap(file).next_id, saved |-> FALSE]
    ELSE IF IsSome(legacy) /\ Trim(Unwrap(legacy)) # << >>
         THEN [entries |-> << NewEntry(1, Unwrap(legacy), "Default") >>,
               next_id |-> 2, saved |-> TRUE]
         ELSE [entries |-> << >>, next_id |-> 1, saved |-> FALSE]

InitKeys ==
    /\ keysPath \in BOOLEAN
    /\ legacy_api_key \in {None} \cup { Some(s) : s \in LegacyKeys }
    /\ \E ok \in BOOLEAN :
         LET st == LoadOrMigrate(None, legacy_api_key, keysPath) IN
           /\ entries = st.entries
           /\ next_id = st.next_id
           /\ keysFile = IF st.saved /\ keysPath /\ ok
                         THEN Some([next_id |-> st.next_id, entries |-> st.entries])
                         ELSE None
    /\ authResp = None

\* an add that numbers the new entry by the length of the list
AddByLength(key, label, ok) ==
    /\ next_id < MaxNextId
    /\ Trim(key) # << >>
    /\ entries' = Append(entries, NewEntry(Len(entries) + 1, key, label))
    /\ next_id' = next_id + 1
    /\ keysFile' = KeysSave(entries', next_id', ok)
    /\ authResp' = None
    /\ UNCHANGED <<keysPath, legacy_api_key>>

\* ApiKeyStore::add (through admin create_api_key: a blank key is replaced by
\* a generated one before add is called)
Add(key, label, ok) ==
    /\ next_id < MaxNextId
    /\ Trim(key) # << >>
    /\ entries' = Append(entries, NewEntry(next_id, key, label))
    /\ next_id' = next_id + 1
    /\ keysFile' = KeysSave(entries', next_id', ok)
    /\ authResp' = None
    /\ UNCHANGED <<keysPath, legacy_api_key>>

IndexOf(es, id) ==
    IF \E i \in 1..Len(es) : es[i].id = id
    THEN CHOOSE i \in 1..Len(es) : es[i].id = id /\ \A j \in 1..(i-1) : es[j].id # id
    ELSE 0

\* an update that stores whatever key it is given, blank or not
UpdatedEntryAnyKey(e, key, label, dis) ==
    [e EXCEPT
       !.key = IF IsSome(key) THEN Trim(Unwrap(key)) ELSE @,
       !.label = IF IsSome(label) THEN Unwrap(label) ELSE @,
       !.disabled = IF IsSome(dis) THEN Unwrap(dis) ELSE @]

\* the entry after ApiKeyStore::update has applied the supplied fields
UpdatedEntry(e, key, label, dis) ==
    [e EXCEPT
       !.key = IF IsSome(key) /\ Trim(Unwrap(key)) # << >> THEN Trim(Unwrap(key)) ELSE @,
       !.label = IF IsSome(label) THEN Unwrap(label) ELSE @,
       !.disabled = IF IsSome(dis) THEN Unwrap(dis) ELSE @]

\* ApiKeyStore::update : Err when the id is unknown (nothing changes)
Update(id, key, label, dis, ok) ==
    LET i == IndexOf(entries, id) IN
      /\ IF i = 0
         THEN UNCHANGED <<entries, keysFile>>
         ELSE /\ entries' = [entries EXCEPT ![i] = UpdatedEntry(@, key, label, dis)]
              /\ keysFile' = KeysSave(entries', next_id, ok)
      /\ authResp' = None
      /\ UNCHANGED <<next_id, keysPath, legacy_api_key>>

Retain(es, id) == SelectSeq(es, LAMBDA e : e.id # id)

\* ApiKeyStore::delete : Err when nothing was removed (no save)
Delete(id, ok) ==
    /\ entries' = Retain(entries, id)
    /\ keysFile' = IF Len(entries') = Len(entries) THEN keysFile
                   ELSE KeysSave(entries', next_id, ok)
    /\ authResp' = None
    /\ UNCHANGED <<next_id, keysPath, legacy_api_key>>

\* user_api authenticate / ApiKeyStore::authenticate under the read lock
Authenticate(key) ==
    /\ authResp' = Some([key |-> key, res |-> authenticate(entries, key)])
    /\ UNCHANGED <<entries, next_id, keysPath, keysFile, legacy_api_key>>

\* process restart: the store is rebuilt by load_or_migrate from the file
RestartKeys(ok) ==
    LET st == LoadOrMigrate(keysFile, legacy_api_key, keysPath) IN
      /\ entries' = st.entries
      /\ next_id' = st.next_id
      /\ keysFile' = IF st.saved THEN KeysSave(st.entries, st.next_id, ok) ELSE keysFile
      /\ authResp' = None
      /\ UNCHANGED <<keysPath, legacy_api_key>>

OptOf(S) == {None} \cup { Some(x) : x \in S }

NextKeys ==
    \/ \E k \in Strs, l \in Labels, ok \in BOOLEAN : Add(k, l, ok) /\ KeysOnly
    \/ \E id \in 1..(MaxNextId - 1), k \in OptOf(Strs), l \in OptOf(Labels),
          d \in OptOf(BOOLEAN), ok \in BOOLEAN :
          Update(id, k, l, d, ok) /\ KeysOnly
    \/ \E id \in 1..(MaxNextId - 1), ok \in BOOLEAN : Delete(id, ok) /\ KeysOnly
    \/ \E k \in Strs : Authenticate(k) /\ KeysOnly
    \/ \E ok \in BOOLEAN : RestartKeys(ok) /\ KeysOnly

vars == <<keyVars, ledgerVars, syncVars, proxyVars, retryVars, sioVars, adminVars, viewVars, usageVars, seriesVars, poolVars, refreshVars, sseVars, versionVars, configVars, enabledVars, beatVars, putVars, keyOpVars>>

(***************************************************************************)
(* token_usage.rs : the token-usage ledger                                 *)
(***************************************************************************)
SAVE_DEBOUNCE_SECS == 30
\* MAX_RECENT_REQUESTS is 10000 in the source; the model keeps the same code
\* with a capacity small enough for eviction to happen within MaxRecords
MAX_RECENT_REQUESTS == 2
\* bounds: calls (record + reset) explored by the sequential and by the
\* concurrent specification, restarts, and the clock
MaxCalls == 3
MaxConcCalls == 2
MaxRestarts == 1
TickSecs == 30
MaxTime == 30

Threads == {1, 2}
Models == {"m1", "m2"}
CredIds == {1}
KeyIds == {1, 2}
InTokens == {2}
OutTokens == {3}

\* u64::to_string, for the numbers the model uses
Digit(d) == <<"0", "1", "2", "3", "4", "5", "6", "7", "8", "9">>[d + 1]

RECURSIVE to_string(_)
to_string(n) == IF n < 10 THEN Digit(n) ELSE to_string(n \div 10) \o Digit(n % 10)

\* GroupTokenStats::default and PersistedStats::default
GroupDefault == [input_tokens |-> 0, output_tokens |-> 0, requests |-> 0]

EmptyMap == [k \in {} |-> GroupDefault]

StatsDefault ==
    [total_input_tokens |-> 0, total_output_tokens |-> 0, total_requests |-> 0,
     by_credential |-> EmptyMap, by_model |-> EmptyMap, by_api_key |-> EmptyMap,
     recent_requests |-> << >>]

\* an entry that is replaced by the latest record instead of added to
BumpOverwrite(map, k, in, out) ==
    LET new == [input_tokens |-> in, output_tokens |-> out, requests |-> 1]
    IN [x \in (DOMAIN map) \cup {k} |-> IF x = k THEN new ELSE map[x]]

\* map.entry(k).or_default() followed by the three additions
Bump(map, k, in, out) ==
    LET old == IF k \in DOMAIN map THEN map[k] ELSE GroupDefault
        new == [input_tokens |-> old.input_tokens + in,
                output_tokens |-> old.output_tokens + out,
                requests |-> old.requests + 1]
    IN [x \in (DOMAIN map) \cup {k} |-> IF x = k THEN new ELSE map[x]]

\* a ring buffer that drops the newest record instead of the oldest
RECURSIVE EvictNewest(_)
EvictNewest(q) ==
    IF Len(q) > MAX_RECENT_REQUESTS THEN EvictNewest(SubSeq(q, 1, Len(q) - 1)) ELSE q

\* while recent_requests.len() > MAX_RECENT_REQUESTS { pop_front() }
RECURSIVE Evict(_)
Evict(q) == IF Len(q) > MAX_RECENT_REQUESTS THEN Evict(Tail(q)) ELSE q

\* the by-api-key update of record, keyed by the credential id instead
BumpByApiKeyWrongKey(st, rec) ==
    IF IsSome(rec.api_key_id)
    THEN Bump(st.by_api_key, to_string(rec.credential_id), rec.input_tokens, rec.output_tokens)
    ELSE st.by_api_key

\* if let Some(key_id) = api_key_id { by_api_key.entry(key_id.to_string()) ... }
BumpByApiKey(st, rec) ==
    IF IsSome(rec.api_key_id)
    THEN Bump(st.by_api_key, to_string(Unwrap(rec.api_key_id)),
              rec.input_tokens, rec.output_tokens)
    ELSE st.by_api_key

\* the locked block of TokenUsageTracker::record
RecordStats(st, rec) ==
    [total_input_tokens |-> st.total_input_tokens + rec.input_tokens,
     total_output_tokens |-> st.total_output_tokens + rec.output_tokens,
     total_requests |-> st.total_requests + 1,
     by_credential |-> Bump(st.by_credential, to_string(rec.credential_id),
                            rec.input_tokens, rec.output_tokens),
     by_model |-> Bump(st.by_model, rec.model, rec.input_tokens, rec.output_tokens),
     by_api_key |-> BumpByApiKey(st, rec),
     recent_requests |-> Evict(Append(st.recent_requests, rec))]

\* TokenUsageRecord (client_ip and user_input are carried along unread and
\* are left out; the timestamp is the instant of the call)
UsageRecord(model, cred, in, out, key) ==
    [timestamp |-> now, model |-> model, credential_id |-> cred,
     api_key_id |-> key, input_tokens |-> in, output_tokens |-> out]

\* serde: camelCase names, apiKeyId skipped when None
RecordToJson(r) ==
    LET common == [timestamp |-> r.timestamp, model |-> r.model,
                   credentialId |-> r.credential_id,
                   inputTokens |-> r.input_tokens, outputTokens |-> r.output_tokens]
    IN IF IsSome(r.api_key_id)
       THEN [timestamp |-> r.timestamp, model |-> r.model,
             credentialId |-> r.credential_id, apiKeyId |-> Unwrap(r.api_key_id),
             inputTokens |-> r.input_tokens, outputTokens |-> r.output_tokens]
       ELSE common

RecordFromJson(j) ==
    [timestamp |-> j.timestamp, model |-> j.model, credential_id |-> j.credentialId,
     api_key_id |-> IF "apiKeyId" \in DOMAIN j THEN Some(j.apiKeyId) ELSE None,
     input_tokens |-> j.inputTokens, output_tokens |-> j.outputTokens]

GroupToJson(g) ==
    [inputTokens |-> g.input_tokens, outputTokens |-> g.output_tokens,
     requests |-> g.requests]

GroupFromJson(j) ==
    [input_tokens |-> j.inputTokens, output_tokens |-> j.outputTokens,
     requests |-> j.requests]

\* serde_json::to_string_pretty(&*stats)
ToJson(st) ==
    [totalInputTokens |-> st.total_input_tokens,
     totalOutputTokens |-> st.total_output_tokens,
     totalRequests |-> st.total_requests,
     byCredential |-> [k \in DOMAIN st.by_credential |-> GroupToJson(st.by_credential[k])],
     byModel |-> [k \in DOMAIN st.by_model |-> GroupToJson(st.by_model[k])],
     byApiKey |-> [k \in DOMAIN st.by_api_key |-> GroupToJson(st.by_api_key[k])],
     recentRequests |-> [i \in 1..Len(st.recent_requests) |->
                            RecordToJson(st.recent_requests[i])]]

\* serde_json::from_str::<PersistedStats>
FromJson(j) ==
    [total_input_tokens |-> j.totalInputTokens,
     total_output_tokens |-> j.totalOutputTokens,
     total_requests |-> j.totalRequests,
     by_credential |-> [k \in DOMAIN j.byCredential |-> GroupFromJson(j.byCredential[k])],
     by_model |-> [k \in DOMAIN j.byModel |-> GroupFromJson(j.byModel[k])],
     by_api_key |-> [k \in DOMAIN j.byApiKey |-> GroupFromJson(j.byApiKey[k])],
     recent_requests |-> [i \in 1..Len(j.recentRequests) |->
                             RecordFromJson(j.recentRequests[i])]]

\* get_stats_for_api_key without the filter on the buffer
get_stats_for_any_key(st, api_key_id) ==
    LET key_str == to_string(api_key_id)
        key_stats == IF key_str \in DOMAIN st.by_api_key
                     THEN st.by_api_key[key_str] ELSE GroupDefault
    IN [total_input_tokens |-> key_stats.input_tokens,
        total_output_tokens |-> key_stats.output_tokens,
        total_requests |-> key_stats.requests,
        recent_requests |-> st.recent_requests]

\* TokenUsageTracker::get_stats_for_api_key (by_model / by_credential of the
\* response are recomputed from the filtered buffer)
get_stats_for_api_key(st, api_key_id) ==
    LET key_str == to_string(api_key_id)
        key_stats == IF key_str \in DOMAIN st.by_api_key
                     THEN st.by_api_key[key_str] ELSE GroupDefault
        recent == SelectSeq(st.recent_requests,
                            LAMBDA r : r.api_key_id = Some(api_key_id))
    IN [total_input_tokens |-> key_stats.input_tokens,
        total_output_tokens |-> key_stats.output_tokens,
        total_requests |-> key_stats.requests,
        recent_requests |-> recent]

\* TokenUsageTracker::new on the first start: no snapshot file yet
InitLedger ==
    /\ usagePath \in BOOLEAN
    /\ stats = StatsDefault
    /\ usageFile = None
    /\ dirty = FALSE
    /\ last_save = None
    /\ now = 0
    /\ alive = TRUE
    /\ tpc = [t \in Threads |-> "idle"]
    /\ top = [t \in Threads |-> "none"]
    /\ tjson = [t \in Threads |-> None]
    /\ writeFailed = FALSE
    /\ lastWriteAt = None
    /\ recWriteGap = None
    /\ baseStats = StatsDefault
    /\ arrivals = << >>
    /\ nCalls = 0
    /\ nRestarts = 0

\* the ledger while another subsystem is at work
LedgerIdle ==
    /\ usagePath = FALSE
    /\ stats = StatsDefault
    /\ usageFile = None
    /\ dirty = FALSE
    /\ last_save = None
    /\ now = 0
    /\ alive = TRUE
    /\ tpc = [t \in Threads |-> "idle"]
    /\ top = [t \in Threads |-> "none"]
    /\ tjson = [t \in Threads |-> None]
    /\ writeFailed = FALSE
    /\ lastWriteAt = None
    /\ recWriteGap = None
    /\ baseStats = StatsDefault
    /\ arrivals = << >>
    /\ nCalls = 0
    /\ nRestarts = 0

histVars == <<writeFailed, lastWriteAt, recWriteGap, baseStats, arrivals>>

\* record, first step: build the record and update the statistics under the lock
Record(t, model, cred, in, out, key) ==
    /\ alive /\ tpc[t] = "idle"
    /\ LET rec == UsageRecord(model, cred, in, out, key) IN
         /\ stats' = RecordStats(stats, rec)
         /\ arrivals' = Append(arrivals, rec)
    /\ nCalls' = nCalls + 1
    /\ tpc' = [tpc EXCEPT ![t] = "mark"]
    /\ top' = [top EXCEPT ![t] = "record"]
    /\ UNCHANGED <<usagePath, usageFile, dirty, last_save, now, alive, tjson,
                   writeFailed, lastWriteAt, recWriteGap, baseStats, nRestarts>>

\* reset, first step: *stats = PersistedStats::default() under the lock
Reset(t) ==
    /\ alive /\ tpc[t] = "idle"
    /\ stats' = StatsDefault
    /\ baseStats' = StatsDefault
    /\ arrivals' = << >>
    /\ nCalls' = nCalls + 1
    /\ tpc' = [tpc EXCEPT ![t] = "mark"]
    /\ top' = [top EXCEPT ![t] = "reset"]
    /\ UNCHANGED <<usagePath, usageFile, dirty, last_save, now, alive, tjson,
                   writeFailed, lastWriteAt, recWriteGap, nRestarts>>

\* a reset that goes through the debounce test like record does
MarkDirtyDebounced(t) ==
    /\ tpc[t] = "mark"
    /\ dirty' = TRUE
    /\ tpc' = [tpc EXCEPT ![t] = "check"]
    /\ UNCHANGED <<stats, usagePath, usageFile, last_save, now, alive, top, tjson,
                   nCalls, nRestarts>>
    /\ UNCHANGED <<writeFailed, lastWriteAt, recWriteGap, baseStats, arrivals>>

\* dirty.store(true): the first statement of save_debounced, and reset's store
MarkDirty(t) ==
    /\ tpc[t] = "mark"
    /\ dirty' = TRUE
    /\ tpc' = [tpc EXCEPT ![t] = IF top[t] = "record" THEN "check" ELSE "save"]
    /\ UNCHANGED <<stats, usagePath, usageFile, last_save, now, alive, top, tjson,
                   nCalls, nRestarts>>
    /\ UNCHANGED histVars

\* a debounce test that always flushes
should_flush_always == TRUE

\* save_debounced: should_flush, read under the last_save lock
should_flush ==
    IF IsSome(last_save) THEN now - Unwrap(last_save) >= SAVE_DEBOUNCE_SECS ELSE TRUE

Finish(t) == /\ tpc' = [tpc EXCEPT ![t] = "idle"]
             /\ top' = [top EXCEPT ![t] = "none"]
             /\ tjson' = [tjson EXCEPT ![t] = None]

CheckDebounce(t) ==
    /\ tpc[t] = "check"
    /\ IF should_flush
       THEN tpc' = [tpc EXCEPT ![t] = "save"] /\ UNCHANGED <<top, tjson>>
       ELSE Finish(t)
    /\ UNCHANGED <<stats, usagePath, usageFile, dirty, last_save, now, alive,
                   nCalls, nRestarts>>
    /\ UNCHANGED histVars

\* save: return without a path, else serialise the statistics under the lock
SaveSerialize(t) ==
    /\ tpc[t] = "save"
    /\ IF usagePath
       THEN /\ tjson' = [tjson EXCEPT ![t] = Some(ToJson(stats))]
            /\ tpc' = [tpc EXCEPT ![t] = "write"]
            /\ UNCHANGED top
       ELSE Finish(t)
    /\ UNCHANGED <<stats, usagePath, usageFile, dirty, last_save, now, alive,
                   nCalls, nRestarts>>
    /\ UNCHANGED histVars

\* save: std::fs::write(path, json); a failure is logged and save returns
SaveWrite(t, ok) ==
    /\ tpc[t] = "write"
    /\ IF ok
       THEN /\ usageFile' = tjson[t]
            /\ lastWriteAt' = Some(now)
            /\ recWriteGap' = IF top[t] = "record"
                              THEN (IF IsSome(lastWriteAt)
                                    THEN Some(now - Unwrap(lastWriteAt)) ELSE None)
                              ELSE recWriteGap
            /\ tpc' = [tpc EXCEPT ![t] = "stamp"]
            /\ UNCHANGED <<top, tjson, writeFailed>>
       ELSE /\ writeFailed' = TRUE
            /\ Finish(t)
            /\ UNCHANGED <<usageFile, lastWriteAt, recWriteGap>>
    /\ UNCHANGED <<stats, usagePath, dirty, last_save, now, alive, baseStats, arrivals,
                   nCalls, nRestarts>>

\* save: *self.last_save.lock() = Some(Instant::now())
SaveStamp(t) ==
    /\ tpc[t] = "stamp"
    /\ last_save' = Some(now)
    /\ tpc' = [tpc EXCEPT ![t] = "clear"]
    /\ UNCHANGED <<stats, usagePath, usageFile, dirty, now, alive, top, tjson,
                   nCalls, nRestarts>>
    /\ UNCHANGED histVars

\* save: self.dirty.store(false)
SaveClear(t) ==
    /\ tpc[t] = "clear"
    /\ dirty' = FALSE
    /\ Finish(t)
    /\ UNCHANGED <<stats, usagePath, usageFile, last_save, now, alive,
                   nCalls, nRestarts>>
    /\ UNCHANGED histVars

\* impl Drop: runs when the last handle is gone, so no call is in progress;
\* if dirty, the whole of save runs
Drop(ok) ==
    /\ alive
    /\ \A t \in Threads : tpc[t] = "idle"
    /\ alive' = FALSE
    /\ IF dirty /\ usagePath
       THEN IF ok
            THEN /\ usageFile' = Some(ToJson(stats))
                 /\ last_save' = Some(now)
                 /\ dirty' = FALSE
                 /\ lastWriteAt' = Some(now)
                 /\ UNCHANGED writeFailed
            ELSE /\ writeFailed' = TRUE
                 /\ UNCHANGED <<usageFile, last_save, dirty, lastWriteAt>>
       ELSE UNCHANGED <<usageFile, last_save, dirty, lastWriteAt, writeFailed>>
    /\ UNCHANGED <<stats, usagePath, now, tpc, top, tjson, recWriteGap, baseStats,
                   arrivals, nCalls, nRestarts>>

\* TokenUsageTracker::new on a later start: default state, then load
New ==
    /\ ~alive
    /\ nRestarts' = nRestarts + 1
    /\ alive' = TRUE
    /\ IF usagePath /\ IsSome(usageFile)
       THEN /\ stats' = FromJson(Unwrap(usageFile))
            /\ last_save' = Some(now)
       ELSE /\ stats' = StatsDefault
            /\ last_save' = None
    /\ dirty' = FALSE
    /\ baseStats' = stats'
    /\ arrivals' = << >>
    /\ writeFailed' = FALSE
    /\ UNCHANGED <<usagePath, usageFile, now, tpc, top, tjson, lastWriteAt,
                   recWriteGap, nCalls>>

\* time passes
Tick ==
    /\ now' = now + TickSecs
    /\ UNCHANGED <<stats, usagePath, usageFile, dirty, last_save, alive, tpc, top,
                   tjson, nCalls, nRestarts>>
    /\ UNCHANGED histVars

\* the narrow record shapes of the concurrent specification
ConcKeyIds == {1}

\* two request threads; the calls interleave at every lock and atomic access
NextLedger ==
    \/ \E t \in Threads, k \in OptOf(ConcKeyIds) :
          nCalls < MaxConcCalls /\ Record(t, "m1", 1, 2, 3, k) /\ LedgerOnly
    \/ \E t \in Threads : nCalls < MaxConcCalls /\ Reset(t) /\ LedgerOnly
    \/ \E t \in Threads : MarkDirty(t) /\ LedgerOnly
    \/ \E t \in Threads : CheckDebounce(t) /\ LedgerOnly
    \/ \E t \in Threads : SaveSerialize(t) /\ LedgerOnly
    \/ \E t \in Threads, ok \in BOOLEAN : SaveWrite(t, ok) /\ LedgerOnly
    \/ \E t \in Threads : SaveStamp(t) /\ LedgerOnly
    \/ \E t \in Threads : SaveClear(t) /\ LedgerOnly
    \/ \E ok \in BOOLEAN : Drop(ok) /\ LedgerOnly
    \/ nRestarts < MaxRestarts /\ New /\ LedgerOnly
    \/ now + TickSecs <= MaxTime /\ Tick /\ LedgerOnly

\* the model and the key of the records of the sequential specification: a
\* record without a key, one key used with both models, and a second key
RecordShapes ==
    { <<"m1", None>>, <<"m1", Some(1)>>, <<"m2", Some(1)>>, <<"m2", Some(2)>> }

\* one request thread, records of every shape
NextLedgerSeq ==
    \/ \E s \in RecordShapes, c \in CredIds, i \in InTokens, o \in OutTokens :
          nCalls < MaxCalls /\ Record(1, s[1], c, i, o, s[2]) /\ LedgerOnly
    \/ nCalls < MaxCalls /\ Reset(1) /\ LedgerOnly
    \/ MarkDirty(1) /\ LedgerOnly
    \/ CheckDebounce(1) /\ LedgerOnly
    \/ SaveSerialize(1) /\ LedgerOnly
    \/ \E ok \in BOOLEAN : SaveWrite(1, ok) /\ LedgerOnly
    \/ SaveStamp(1) /\ LedgerOnly
    \/ SaveClear(1) /\ LedgerOnly
    \/ \E ok \in BOOLEAN : Drop(ok) /\ LedgerOnly
    \/ nRestarts < MaxRestarts /\ New /\ LedgerOnly
    \/ now + TickSecs <= MaxTime /\ Tick /\ LedgerOnly

(***************************************************************************)
(* Control-plane sync: sync/websocket.rs (DeviceClient) and                *)
(* sync/manager.rs (SyncManager)                                           *)
(***************************************************************************)
MAX_FAILURES == 3
\* iterations of the registration wait loop (50 in the program)
WaitIters == 2
MaxVersion == 1

SyncCredIds == {1, 2}
CommandIds == {"c1"}
\* the credential ids the commands name
CommandTargets == {1}
ConnectionState == {"Disconnected", "Connecting", "Connected", "Registered", "Error"}

\* the credentials the process starts with
InitPools == { [i \in SyncCredIds |-> "absent"],
               [i \in SyncCredIds |-> IF i = 1 THEN "enabled" ELSE "absent"] }

PoolIds(pl) == { i \in SyncCredIds : pl[i] # "absent" }

\* EntityChanges<TokenSync> of a get_changes response: ids updated, ids deleted
Envelopes == { [updated |-> {}, deleted |-> {}],
               [updated |-> {2}, deleted |-> {}],
               [updated |-> {}, deleted |-> {1}] }

InitSync ==
    /\ ws_state = "Disconnected"
    /\ client = FALSE
    /\ regPending = FALSE
    /\ heartbeats = {}
    /\ ioFailed = FALSE
    /\ last_sync_version = 0
    /\ pool \in InitPools
    /\ credentials = PoolIds(pool)
    /\ ppc = "start"
    /\ pafter = "tick"
    /\ waitLeft = 0
    /\ cyclePulled = FALSE
    /\ cycleEnv = None
    /\ apc = "idle"
    /\ cpc = "idle"
    /\ cmd = None
    /\ poolRes = None
    /\ syncRes = None
    /\ responses = << >>
    /\ cmdPushes = {}
    /\ tickedSinceCmd = FALSE
    /\ serverVersion = 0

\* the sync subsystem while another subsystem is at work
SyncIdle ==
    /\ InitSync
    /\ pool = [i \in SyncCredIds |-> "absent"]

\* ---- DeviceClient::connect_and_register --------------------------------
\* entry: the state becomes Connecting.  start() calls it once before it
\* spawns the periodic task, the periodic task calls it to reconnect.
ConnectBegin ==
    /\ ppc \in {"start", "reconnect"}
    /\ ws_state' = "Connecting"
    /\ ioFailed' = FALSE
    /\ ppc' = "connect"
    /\ pafter' = IF ppc = "start" THEN "tick" ELSE "pull"
    /\ UNCHANGED <<client, regPending, heartbeats, waitLeft, cyclePulled, cycleEnv>>
    /\ UNCHANGED <<cmdVars, cmdHist, last_sync_version, credentials, apc, pool, serverVersion>>

\* ClientBuilder::connect().await? : on failure `?` returns the error and the
\* state stays as it is
Connect(ok) ==
    /\ ppc = "connect"
    /\ IF ok
         THEN /\ ws_state' = "Connected"
              /\ client' = TRUE
              /\ ppc' = "emit"
              /\ UNCHANGED ioFailed
         ELSE /\ ioFailed' = TRUE
              /\ ppc' = pafter
              /\ UNCHANGED <<ws_state, client>>
    /\ UNCHANGED <<regPending, heartbeats, pafter, waitLeft, cyclePulled, cycleEnv>>
    /\ UNCHANGED <<cmdVars, cmdHist, last_sync_version, credentials, apc, pool, serverVersion>>

\* client.emit("device:register", ..).await? followed by the start of the wait
EmitRegister(ok) ==
    /\ ppc = "emit"
    /\ IF ok
         THEN /\ regPending' = TRUE
              /\ ppc' = "wait"
              /\ waitLeft' = WaitIters
              /\ UNCHANGED ioFailed
         ELSE /\ ioFailed' = TRUE
              /\ ppc' = pafter
              /\ UNCHANGED <<regPending, waitLeft>>
    /\ UNCHANGED <<ws_state, client, heartbeats, pafter, cyclePulled, cycleEnv>>
    /\ UNCHANGED <<cmdVars, cmdHist, last_sync_version, credentials, apc, pool, serverVersion>>

\* one iteration of `for _ in 0..50`; once the loop is over, or on break, the
\* heartbeat task is spawned and Ok returned; on Error the call bails out
WaitRegistered ==
    /\ ppc = "wait"
    /\ IF waitLeft = 0 \/ ws_state = "Registered"
         THEN /\ heartbeats' = heartbeats \cup {0}
              /\ ppc' = pafter
              /\ UNCHANGED waitLeft
         ELSE IF ws_state = "Error"
                THEN /\ ppc' = pafter
                     /\ UNCHANGED <<heartbeats, waitLeft>>
                ELSE /\ waitLeft' = waitLeft - 1
                     /\ UNCHANGED <<heartbeats, ppc>>
    /\ UNCHANGED <<ws_state, client, regPending, ioFailed, pafter, cyclePulled, cycleEnv>>
    /\ UNCHANGED <<cmdVars, cmdHist, last_sync_version, credentials, apc, pool, serverVersion>>

\* the "device:registered" callback
DeviceRegistered(success) ==
    /\ regPending
    /\ regPending' = FALSE
    /\ ws_state' = IF success THEN "Registered" ELSE "Error"
    /\ UNCHANGED <<client, heartbeats, ioFailed>>
    /\ UNCHANGED <<taskVars, cmdVars, cmdHist, last_sync_version, credentials, apc, pool,
                   serverVersion>>

\* the "device:error" callback (payload with a message)
DeviceError ==
    /\ client
    /\ ws_state' = "Error"
    /\ UNCHANGED <<client, regPending, heartbeats, ioFailed>>
    /\ UNCHANGED <<taskVars, cmdVars, cmdHist, last_sync_version, credentials, apc, pool,
                   serverVersion>>

\* a heartbeat task whose count is not brought back to 0 by a success
HeartbeatNoReset(c, ok) ==
    /\ c \in heartbeats
    /\ IF ws_state # "Registered"
         THEN /\ heartbeats' = heartbeats \ {c}
              /\ UNCHANGED ws_state
         ELSE IF ok
                THEN UNCHANGED <<heartbeats, ws_state>>
                ELSE IF c + 1 >= MAX_FAILURES
                       THEN /\ ws_state' = "Error"
                            /\ heartbeats' = heartbeats \ {c}
                       ELSE /\ heartbeats' = (heartbeats \ {c}) \cup {c + 1}
                            /\ UNCHANGED ws_state
    /\ UNCHANGED <<client, regPending, ioFailed>>
    /\ UNCHANGED <<taskVars, cmdVars, cmdHist, last_sync_version, credentials, apc, pool,
                   serverVersion>>

\* one round of a heartbeat task whose consecutive_failures is c
Heartbeat(c, ok) ==
    /\ c \in heartbeats
    /\ IF ws_state # "Registered"
         THEN /\ heartbeats' = heartbeats \ {c}
              /\ UNCHANGED ws_state
         ELSE IF ok
                THEN /\ heartbeats' = (heartbeats \ {c}) \cup {0}
                     /\ UNCHANGED ws_state
                ELSE IF c + 1 >= MAX_FAILURES
                       THEN /\ ws_state' = "Error"
                            /\ heartbeats' = heartbeats \ {c}
                       ELSE /\ heartbeats' = (heartbeats \ {c}) \cup {c + 1}
                            /\ UNCHANGED ws_state
    /\ UNCHANGED <<client, regPending, ioFailed>>
    /\ UNCHANGED <<taskVars, cmdVars, cmdHist, last_sync_version, credentials, apc, pool,
                   serverVersion>>

\* DeviceClient::get_state_sync : the state, or Disconnected when try_read
\* loses against a writer (only a connected client has callbacks that write)
get_state_sync == {ws_state} \cup (IF client THEN {"Disconnected"} ELSE {})

\* ---- SyncManager::start : the periodic task ----------------------------
\* interval.tick().await
IntervalTick ==
    /\ ppc = "tick"
    /\ ppc' = "check"
    /\ cyclePulled' = FALSE
    /\ cycleEnv' = None
    /\ tickedSinceCmd' = TRUE
    /\ UNCHANGED <<pafter, waitLeft, cmdPushes>>
    /\ UNCHANGED <<chanVars, cmdVars, last_sync_version, credentials, apc, pool, serverVersion>>

\* the reconnect check: only Error and Disconnected lead to a new attempt
CheckConnection(observed) ==
    /\ ppc = "check"
    /\ observed \in get_state_sync
    /\ ppc' = IF observed \in {"Error", "Disconnected"} THEN "reconnect" ELSE "pull"
    /\ UNCHANGED <<pafter, waitLeft, cyclePulled, cycleEnv>>
    /\ UNCHANGED <<chanVars, cmdVars, cmdHist, last_sync_version, credentials, apc, pool,
                   serverVersion>>

\* client.get_changes(since_version) is sent
PullStart ==
    /\ ppc = "pull"
    /\ ppc' = "pulling"
    /\ UNCHANGED <<pafter, waitLeft, cyclePulled, cycleEnv>>
    /\ UNCHANGED <<chanVars, cmdVars, cmdHist, last_sync_version, credentials, apc, pool,
                   serverVersion>>

\* get_changes returns: on Ok only last_sync_version is written, the changes
\* themselves are dropped
PullDone(ok, env) ==
    /\ ppc = "pulling"
    /\ ppc' = "push"
    /\ cyclePulled' = TRUE
    /\ IF ok
         THEN /\ last_sync_version' = serverVersion
              /\ cycleEnv' = Some(env)
         ELSE UNCHANGED <<last_sync_version, cycleEnv>>
    /\ UNCHANGED <<pafter, waitLeft>>
    /\ UNCHANGED <<chanVars, cmdVars, cmdHist, credentials, apc, pool, serverVersion>>

\* the tokens of the PushChangesRequest: the ids of SyncManager.credentials
PushTokens == credentials

\* creds.is_empty() ends the cycle, otherwise client.push_changes is sent
PushStart ==
    /\ ppc = "push"
    /\ IF PushTokens = {}
         THEN /\ ppc' = "tick"
              /\ UNCHANGED cmdPushes
         ELSE /\ ppc' = "pushing"
              /\ cmdPushes' = cmdPushes \cup {PushTokens}
    /\ UNCHANGED <<pafter, waitLeft, cyclePulled, cycleEnv, tickedSinceCmd>>
    /\ UNCHANGED <<chanVars, cmdVars, last_sync_version, credentials, apc, pool, serverVersion>>

\* push_changes returns; the server may have moved to a new version
PushDone(ok, newVersion) ==
    /\ ppc = "pushing"
    /\ ppc' = "tick"
    /\ IF ok
         THEN /\ serverVersion' = newVersion
              /\ last_sync_version' = newVersion
         ELSE UNCHANGED <<serverVersion, last_sync_version>>
    /\ UNCHANGED <<pafter, waitLeft, cyclePulled, cycleEnv>>
    /\ UNCHANGED <<chanVars, cmdVars, cmdHist, credentials, apc, pool>>

\* the versions the server can answer a push with
NextVersions == {serverVersion} \cup (IF serverVersion < MaxVersion THEN {serverVersion + 1} ELSE {})

\* another device pushes to the control plane
ServerChange ==
    /\ serverVersion < MaxVersion
    /\ serverVersion' = serverVersion + 1
    /\ UNCHANGED <<chanVars, taskVars, cmdVars, cmdHist, last_sync_version, credentials, apc,
                   pool>>

\* ---- SyncManager::sync_now ----------------------------------------------
\* what sync_now does once its get_changes has returned
sync_now(ok) ==
    IF ok THEN last_sync_version' = serverVersion ELSE UNCHANGED last_sync_version

\* admin POST /sync/now: sync_now sends its get_changes
AdminSyncNow ==
    /\ apc = "idle"
    /\ apc' = "pulling"
    /\ UNCHANGED <<chanVars, taskVars, cmdVars, cmdHist, last_sync_version, credentials, pool,
                   serverVersion>>

AdminSyncDone(ok) ==
    /\ apc = "pulling"
    /\ apc' = "idle"
    /\ sync_now(ok)
    /\ UNCHANGED <<chanVars, taskVars, cmdVars, cmdHist, credentials, pool, serverVersion>>

\* ---- DeviceClient::handle_credential_command ----------------------------
DeviceCommand(kind, credential_id, disabled, command_id) ==
    [kind |-> kind, credential_id |-> credential_id, disabled |-> disabled,
     command_id |-> command_id]

\* the payloads the server sends; "unparsable" is one serde_json rejects
Commands ==
    { DeviceCommand("AddCredential", 0, FALSE, c) : c \in CommandIds }
      \cup { DeviceCommand("DeleteCredential", i, FALSE, c) : i \in CommandTargets, c \in CommandIds }
      \cup { DeviceCommand("SetDisabled", i, d, c) :
               i \in CommandTargets, d \in BOOLEAN, c \in CommandIds }
      \cup { DeviceCommand("unparsable", 0, FALSE, "none") }

PoolResult(ok, pl, id) == [ok |-> ok, pool |-> pl, id |-> id]

MinOf(S) == CHOOSE i \in S : \A j \in S : i <= j

\* MultiTokenManager::add_credential : validates the credential (accepted says
\* whether it passes) and stores it under a fresh id
add_credential(pl, accepted) ==
    LET free == SyncCredIds \ PoolIds(pl) IN
    IF accepted /\ free # {}
      THEN PoolResult(TRUE, [pl EXCEPT ![MinOf(free)] = "enabled"], MinOf(free))
      ELSE PoolResult(FALSE, pl, 0)

\* MultiTokenManager::delete_credential
delete_credential(pl, id) ==
    IF pl[id] # "absent"
      THEN PoolResult(TRUE, [pl EXCEPT ![id] = "absent"], id)
      ELSE PoolResult(FALSE, pl, id)

\* MultiTokenManager::set_disabled
set_disabled(pl, id, disabled) ==
    IF pl[id] # "absent"
      THEN PoolResult(TRUE, [pl EXCEPT ![id] = IF disabled THEN "disabled" ELSE "enabled"], id)
      ELSE PoolResult(FALSE, pl, id)

CommandResponse(command_id, success, error, data) ==
    [command_id |-> command_id, success |-> success, error |-> error, data |-> data]

\* a response whose success also depends on the follow-up sync
CommandResultFailingOnSync(c, res, synced) ==
    IF res.ok /\ synced = Some(TRUE)
      THEN CommandResponse(c.command_id, TRUE, None,
                           IF c.kind = "AddCredential" THEN Some(res.id) ELSE None)
      ELSE CommandResponse(c.command_id, FALSE, Some("error"), None)

\* the CommandResponse execute_command builds: it depends on the result of the
\* pool operation only, the result of sync_now is logged
CommandResult(c, res, synced) ==
    IF res.ok
      THEN CommandResponse(c.command_id, TRUE, None,
                           IF c.kind = "AddCredential" THEN Some(res.id) ELSE None)
      ELSE CommandResponse(c.command_id, FALSE, Some("error"), None)

\* the "credential:command" callback receives a payload
CredentialCommand(c) ==
    /\ client
    /\ cpc = "idle"
    /\ cmd' = Some(c)
    /\ cpc' = IF c.kind = "unparsable" THEN "respond" ELSE "exec"
    /\ poolRes' = None
    /\ syncRes' = None
    /\ responses' = << >>
    /\ cmdPushes' = {}
    /\ tickedSinceCmd' = FALSE
    /\ UNCHANGED <<chanVars, taskVars, last_sync_version, credentials, apc, pool, serverVersion>>

\* execute_command: the pool operation of the command
ExecuteCommand(accepted) ==
    /\ cpc = "exec"
    /\ LET c == Unwrap(cmd)
           res == CASE c.kind = "AddCredential" -> add_credential(pool, accepted)
                    [] c.kind = "DeleteCredential" -> delete_credential(pool, c.credential_id)
                    [] OTHER -> set_disabled(pool, c.credential_id, c.disabled)
       IN /\ pool' = res.pool
          /\ poolRes' = Some([ok |-> res.ok, id |-> res.id])
          /\ cpc' = IF res.ok THEN "sync" ELSE "respond"
    /\ cmdPushes' = {}
    /\ tickedSinceCmd' = FALSE
    /\ UNCHANGED <<cmd, syncRes, responses>>
    /\ UNCHANGED <<chanVars, taskVars, last_sync_version, credentials, apc, serverVersion>>

\* execute_command, Ok branch: sync_manager.sync_now() sends its get_changes
CommandSyncNow ==
    /\ cpc = "sync"
    /\ cpc' = "syncing"
    /\ UNCHANGED <<cmd, poolRes, syncRes, responses>>
    /\ UNCHANGED <<chanVars, taskVars, cmdHist, last_sync_version, credentials, apc, pool,
                   serverVersion>>

CommandSyncDone(ok) ==
    /\ cpc = "syncing"
    /\ cpc' = "respond"
    /\ sync_now(ok)
    /\ syncRes' = Some(ok)
    /\ UNCHANGED <<cmd, poolRes, responses>>
    /\ UNCHANGED <<chanVars, taskVars, cmdHist, credentials, apc, pool, serverVersion>>

\* client.emit("credential:response", ..): a failure of the emit is logged
Respond ==
    /\ cpc = "respond"
    /\ cpc' = "idle"
    /\ responses' = Append(responses,
                           IF Unwrap(cmd).kind = "unparsable"
                             THEN CommandResponse("unknown", FALSE, Some("error"), None)
                             ELSE CommandResult(Unwrap(cmd), Unwrap(poolRes), syncRes))
    /\ UNCHANGED <<cmd, poolRes, syncRes>>
    /\ UNCHANGED <<chanVars, taskVars, cmdHist, last_sync_version, credentials, apc, pool,
                   serverVersion>>

\* ---- specifications of the sync subsystem -------------------------------
\* the start / periodic task
PeriodicTask ==
    \/ ConnectBegin
    \/ \E ok \in BOOLEAN : Connect(ok)
    \/ \E ok \in BOOLEAN : EmitRegister(ok)
    \/ WaitRegistered
    \/ IntervalTick
    \/ \E observed \in ConnectionState : CheckConnection(observed)
    \/ PullStart
    \/ \E ok \in BOOLEAN, env \in Envelopes : PullDone(ok, env)
    \/ PushStart
    \/ \E ok \in BOOLEAN, v \in NextVersions : PushDone(ok, v)

HeartbeatTasks == \E c \in 0..(MAX_FAILURES - 1), ok \in BOOLEAN : Heartbeat(c, ok)

\* the manager with its three callers of get_changes; the events the server
\* sends on the device channel are in NextChannel
NextSync ==
    \/ ConnectBegin /\ SyncOnly
    \/ (\E ok \in BOOLEAN : Connect(ok)) /\ SyncOnly
    \/ (\E ok \in BOOLEAN : EmitRegister(ok)) /\ SyncOnly
    \/ WaitRegistered /\ SyncOnly
    \/ IntervalTick /\ SyncOnly
    \/ (\E observed \in ConnectionState : CheckConnection(observed)) /\ SyncOnly
    \/ PullStart /\ SyncOnly
    \/ (\E ok \in BOOLEAN, env \in Envelopes : PullDone(ok, env)) /\ SyncOnly
    \/ PushStart /\ SyncOnly
    \/ (\E ok \in BOOLEAN, v \in NextVersions : PushDone(ok, v)) /\ SyncOnly
    \/ ServerChange /\ SyncOnly
    \/ AdminSyncNow /\ SyncOnly
    \/ (\E ok \in BOOLEAN : AdminSyncDone(ok)) /\ SyncOnly
    \/ (\E c \in Commands : CredentialCommand(c)) /\ SyncOnly
    \/ (\E accepted \in BOOLEAN : ExecuteCommand(accepted)) /\ SyncOnly
    \/ CommandSyncNow /\ SyncOnly
    \/ (\E ok \in BOOLEAN : CommandSyncDone(ok)) /\ SyncOnly
    \/ Respond /\ SyncOnly

\* the device channel with the task that reconnects it
NextChannel ==
    \/ ConnectBegin /\ SyncOnly
    \/ (\E ok \in BOOLEAN : Connect(ok)) /\ SyncOnly
    \/ (\E ok \in BOOLEAN : EmitRegister(ok)) /\ SyncOnly
    \/ WaitRegistered /\ SyncOnly
    \/ (\E success \in BOOLEAN : DeviceRegistered(success)) /\ SyncOnly
    \/ DeviceError /\ SyncOnly
    \/ (\E c \in 0..(MAX_FAILURES - 1), ok \in BOOLEAN : Heartbeat(c, ok)) /\ SyncOnly
    \/ IntervalTick /\ SyncOnly
    \/ (\E observed \in ConnectionState : CheckConnection(observed)) /\ SyncOnly
    \/ PullStart /\ SyncOnly
    \/ (\E ok \in BOOLEAN, env \in Envelopes : PullDone(ok, env)) /\ SyncOnly
    \/ PushStart /\ SyncOnly
    \/ (\E ok \in BOOLEAN, v \in NextVersions : PushDone(ok, v)) /\ SyncOnly
    \/ ServerChange /\ SyncOnly

(***************************************************************************)
(* http_client.rs : SharedProxy                                            *)
(***************************************************************************)
MaxSets == 3

ProxyCallers == {1, 2}
\* Option<ProxyConfig> values handed to new and set
ProxyConfigs == {None, Some("p1"), Some("p2")}

\* SharedProxy::new
InitProxy ==
    /\ proxy_config \in ProxyConfigs
    /\ proxy_version = 0
    /\ spc = [t \in ProxyCallers |-> "idle"]
    /\ getRes = None
    /\ verRes = None
    /\ lastOp = "new"
    /\ lastSet = proxy_config
    /\ setsStarted = 0
    /\ overlapped = FALSE

\* the shared proxy while another subsystem is at work
ProxyIdle ==
    /\ InitProxy
    /\ proxy_config = None

\* a version counter that is left alone
fetch_add_nothing(v, n) == v

\* AtomicU64::fetch_add (the counter cannot reach 2^64 here)
fetch_add(v, n) == v + n

\* a set that leaves the stored value alone and goes on to the counter
SetVersionOnly(t, c) ==
    /\ spc[t] = "idle"
    /\ spc' = [spc EXCEPT ![t] = "bump"]
    /\ lastOp' = "set"
    /\ lastSet' = c
    /\ setsStarted' = setsStarted + 1
    /\ overlapped' = (overlapped \/ \E u \in ProxyCallers : spc[u] = "bump")
    /\ UNCHANGED <<proxy_config, proxy_version, getRes, verRes>>

\* set, first statement: *self.config.write() = config
SetWrite(t, c) ==
    /\ spc[t] = "idle"
    /\ proxy_config' = c
    /\ spc' = [spc EXCEPT ![t] = "bump"]
    /\ lastOp' = "set"
    /\ lastSet' = c
    /\ setsStarted' = setsStarted + 1
    /\ overlapped' = (overlapped \/ \E u \in ProxyCallers : spc[u] = "bump")
    /\ UNCHANGED <<proxy_version, getRes, verRes>>

\* set, second statement: self.version.fetch_add(1, SeqCst)
SetBump(t) ==
    /\ spc[t] = "bump"
    /\ proxy_version' = fetch_add(proxy_version, 1)
    /\ spc' = [spc EXCEPT ![t] = "idle"]
    /\ lastOp' = "set"
    /\ UNCHANGED <<proxy_config, getRes, verRes, lastSet, setsStarted, overlapped>>

\* get: self.config.read().clone()
ProxyGet(t) ==
    /\ spc[t] = "idle"
    /\ getRes' = Some(proxy_config)
    /\ lastOp' = "get"
    /\ UNCHANGED <<proxy_config, proxy_version, spc, verRes, lastSet, setsStarted, overlapped>>

\* version: self.version.load(SeqCst)
ProxyVersion(t) ==
    /\ spc[t] = "idle"
    /\ verRes' = Some(proxy_version)
    /\ lastOp' = "version"
    /\ UNCHANGED <<proxy_config, proxy_version, spc, getRes, lastSet, setsStarted, overlapped>>

NextProxy ==
    \/ setsStarted < MaxSets
         /\ (\E t \in ProxyCallers, c \in ProxyConfigs : SetWrite(t, c)) /\ ProxyOnly
    \/ (\E t \in ProxyCallers : SetBump(t)) /\ ProxyOnly
    \/ (\E t \in ProxyCallers : ProxyGet(t)) /\ ProxyOnly
    \/ (\E t \in ProxyCallers : ProxyVersion(t)) /\ ProxyOnly

(***************************************************************************)
(* sync/client.rs : retry_with_backoff and the operations it wraps         *)
(***************************************************************************)
MaxRetries == 1

\* impl Default for RetryConfig
RetryConfigDefault ==
    [max_retries |-> 3, initial_delay_ms |-> 1000, exponential_backoff |-> TRUE]

\* the default and configurations given to new_with_retry
RetryConfigs ==
    {RetryConfigDefault}
      \cup { [max_retries |-> n, initial_delay_ms |-> 500, exponential_backoff |-> e] :
               n \in 0..MaxRetries, e \in BOOLEAN }

SyncOperations == {"get_version", "get_changes", "push_changes"}

\* what one attempt of an operation can meet: send() fails, or the response
\* has a status that is or is not a success, or a 2xx body that does not parse
Outcomes == {"ok", "transport", "http4xx", "http5xx", "body"}

\* the closure passed to retry_with_backoff: Ok only for a 2xx response whose
\* body parses; `?` on send, bail! on !is_success(), `?` on the body
OperationResult(outcome) == [ok |-> outcome = "ok", outcome |-> outcome]

RECURSIVE pow(_, _)
pow(b, e) == IF e = 0 THEN 1 ELSE b * pow(b, e - 1)

delay_ms(config, n) ==
    IF config.exponential_backoff
      THEN config.initial_delay_ms * pow(2, n - 1)
      ELSE config.initial_delay_ms

\* a guard that allows one retry more
may_retry_inclusive(n, config) == n <= config.max_retries

\* the guard of the retrying arm: Err(e) if retries < config.max_retries
may_retry(n, config) == n < config.max_retries

InitRetry ==
    /\ retry_config \in RetryConfigs
    /\ operation_name \in SyncOperations
    /\ retries = 0
    /\ rpc = "call"
    /\ tried = << >>
    /\ slept = << >>
    /\ returned = None

\* no sync-client call while another subsystem is at work
RetryIdle ==
    /\ InitRetry
    /\ retry_config = RetryConfigDefault
    /\ operation_name = "get_version"

\* match operation().await
Operation(outcome) ==
    /\ rpc = "call"
    /\ tried' = Append(tried, outcome)
    /\ LET res == OperationResult(outcome) IN
       IF res.ok
         THEN /\ returned' = Some(res)
              /\ rpc' = "done"
              /\ UNCHANGED <<retries, slept>>
         ELSE IF may_retry(retries, retry_config)
                THEN /\ retries' = retries + 1
                     /\ slept' = Append(slept, delay_ms(retry_config, retries + 1))
                     /\ rpc' = "sleep"
                     /\ UNCHANGED returned
                ELSE /\ returned' = Some(res)
                     /\ rpc' = "done"
                     /\ UNCHANGED <<retries, slept>>
    /\ UNCHANGED <<retry_config, operation_name>>

\* tokio::time::sleep(Duration::from_millis(delay_ms)).await is over
Sleep ==
    /\ rpc = "sleep"
    /\ rpc' = "call"
    /\ UNCHANGED <<retry_config, operation_name, retries, tried, slept, returned>>

NextRetry ==
    \/ (\E outcome \in Outcomes : Operation(outcome)) /\ RetryOnly
    \/ Sleep /\ RetryOnly

(***************************************************************************)
(* sync/socketio_client.rs : SocketIOClient                                *)
(***************************************************************************)
MaxAttempts == 6
max_retry_delay == 30

\* std::cmp::min
min(a, b) == IF a <= b THEN a ELSE b

\* SocketIOClient::new followed by connect_and_register_with_retry up to the
\* first iteration of the spawned loop
InitSio ==
    /\ sio_state = "Disconnected"
    /\ device_info \in {None, Some("device")}
    /\ registration_notifier \in BOOLEAN
    /\ command_sender \in BOOLEAN
    /\ retry_delay = 1
    /\ first_registration = TRUE
    /\ sio_pc = "loop"
    /\ sio_event = "spawn"
    /\ attempts = 0
    /\ failStreak = 0
    /\ registrations = 0
    /\ notified = 0
    /\ failedFirst = FALSE

\* the client while another subsystem is at work
SioIdle ==
    /\ InitSio
    /\ device_info = None
    /\ ~registration_notifier
    /\ ~command_sender

\* the owner of device_info stores the device
SetDeviceInfo ==
    /\ device_info = None
    /\ device_info' = Some("device")
    /\ UNCHANGED <<sio_state, registration_notifier, command_sender, retry_delay,
                   first_registration, sio_pc, sio_event, attempts, failStreak,
                   registrations, notified, failedFirst>>

\* the Err arm of the loop: connect_once returned an error
ErrArm(event) ==
    /\ sio_state' = "Error"
    /\ retry_delay' = min(retry_delay * 2, max_retry_delay)
    /\ sio_pc' = "sleep"
    /\ sio_event' = event
    /\ failStreak' = failStreak + 1
    /\ failedFirst' = (failedFirst \/ registrations = 0)
    /\ UNCHANGED <<device_info, registration_notifier, command_sender, first_registration,
                   attempts, registrations, notified>>

\* the Ok arm of the loop: the service loop was left with state st written
OkArm(st, event) ==
    /\ sio_state' = st
    /\ retry_delay' = 1
    /\ first_registration' = FALSE
    /\ sio_pc' = "sleep"
    /\ sio_event' = event
    /\ failStreak' = 0
    /\ UNCHANGED <<device_info, registration_notifier, command_sender, attempts,
                   registrations, notified, failedFirst>>

\* a step that only moves the task on
Advance(pc, event) ==
    /\ sio_pc' = pc
    /\ sio_event' = event
    /\ UNCHANGED <<device_info, registration_notifier, command_sender, retry_delay,
                   first_registration, attempts, failStreak, registrations, notified,
                   failedFirst>>

\* top of the loop: without device_info sleep and continue, otherwise enter
\* connect_once, which writes Connecting and starts connect_async
LoopTop ==
    /\ sio_pc = "loop"
    /\ IF device_info = None
         THEN /\ Advance("sleep", "no_device")
              /\ UNCHANGED sio_state
         ELSE /\ sio_state' = "Connecting"
              /\ sio_pc' = "connect"
              /\ sio_event' = "attempt"
              /\ attempts' = attempts + 1
              /\ UNCHANGED <<device_info, registration_notifier, command_sender,
                             retry_delay, first_registration, failStreak, registrations,
                             notified, failedFirst>>

\* connect_async(..).await.context(..)?
ConnectAsync(ok) ==
    /\ sio_pc = "connect"
    /\ IF ok
         THEN /\ Advance("handshake", "socket")
              /\ UNCHANGED sio_state
         ELSE ErrArm("connect_failed")

\* the first read: a text that is not an open packet bails, anything else
\* (an open packet, no text at all) leads to Connected
Handshakes == {"open", "text", "none"}

Handshake(msg) ==
    /\ sio_pc = "handshake"
    /\ IF msg = "text"
         THEN ErrArm("handshake_failed")
         ELSE /\ sio_state' = "Connected"
              /\ Advance("send40", "connected")

\* write.send("40").await?
SendConnect(ok) ==
    /\ sio_pc = "send40"
    /\ IF ok
         THEN /\ Advance("nsack", "sent40")
              /\ UNCHANGED sio_state
         ELSE ErrArm("send_failed")

\* the read of the namespace acknowledgement, then the device:register packet
SendRegister(ok) ==
    /\ sio_pc = "nsack"
    /\ IF ok
         THEN /\ Advance("wait", "register")
              /\ UNCHANGED sio_state
         ELSE ErrArm("send_failed")

\* a condition that notifies at every registration
should_notify_always(first, notifier) == notifier

\* if is_first_registration { if let Some(ref notifier) = registration_notifier
should_notify(first, notifier) == first /\ notifier

\* wait loop: device:registered
SioRegistered ==
    /\ sio_pc = "wait"
    /\ sio_state' = "Registered"
    /\ registrations' = registrations + 1
    /\ notified' = IF should_notify(first_registration, registration_notifier)
                     THEN notified + 1 ELSE notified
    /\ sio_pc' = "service"
    /\ sio_event' = "registered"
    /\ UNCHANGED <<device_info, registration_notifier, command_sender, retry_delay,
                   first_registration, attempts, failStreak, failedFirst>>

\* wait loop: device:error
SioDeviceError ==
    /\ sio_pc = "wait"
    /\ ErrArm("device_error")

\* wait loop: the 5 s timeout
RegisterTimeout ==
    /\ sio_pc = "wait"
    /\ ErrArm("timeout")

\* wait loop or service loop: a message that is none of the handled ones
OtherMessage ==
    /\ sio_pc \in {"wait", "service"}
    /\ Advance(sio_pc, "ignored")
    /\ UNCHANGED sio_state

\* service loop: heartbeat_timer.tick()
HeartbeatTick(ok) ==
    /\ sio_pc = "service"
    /\ IF ok
         THEN /\ Advance("service", "heartbeat")
              /\ UNCHANGED sio_state
         ELSE OkArm("Error", "heartbeat_failed")

\* service loop: the server's ping "2"
ServerPing(ok) ==
    /\ sio_pc = "service"
    /\ IF ok
         THEN /\ Advance("service", "pong")
              /\ UNCHANGED sio_state
         ELSE OkArm("Error", "pong_failed")

\* service loop: a credential:command event
SioCommand(parsable) ==
    /\ sio_pc = "service"
    /\ Advance("service", IF parsable /\ command_sender THEN "command" ELSE "ignored")
    /\ UNCHANGED sio_state

\* a close that leaves the state as it is
SioCloseKeepingState ==
    /\ sio_pc = "service"
    /\ OkArm(sio_state, "close")

\* service loop: Ok(Message::Close(_))
SioClose ==
    /\ sio_pc = "service"
    /\ OkArm("Disconnected", "close")

\* service loop: Err(e) from the stream
SioReadError ==
    /\ sio_pc = "service"
    /\ OkArm("Error", "read_error")

\* tokio::time::sleep(retry_delay).await is over
SioSleep ==
    /\ sio_pc = "sleep"
    /\ Advance("loop", "slept")
    /\ UNCHANGED sio_state

NextSio ==
    \/ SetDeviceInfo /\ SioOnly
    \/ attempts < MaxAttempts /\ LoopTop /\ SioOnly
    \/ (\E ok \in BOOLEAN : ConnectAsync(ok)) /\ SioOnly
    \/ (\E msg \in Handshakes : Handshake(msg)) /\ SioOnly
    \/ (\E ok \in BOOLEAN : SendConnect(ok)) /\ SioOnly
    \/ (\E ok \in BOOLEAN : SendRegister(ok)) /\ SioOnly
    \/ SioRegistered /\ SioOnly
    \/ SioDeviceError /\ SioOnly
    \/ RegisterTimeout /\ SioOnly
    \/ OtherMessage /\ SioOnly
    \/ (\E ok \in BOOLEAN : HeartbeatTick(ok)) /\ SioOnly
    \/ (\E ok \in BOOLEAN : ServerPing(ok)) /\ SioOnly
    \/ (\E parsable \in BOOLEAN : SioCommand(parsable)) /\ SioOnly
    \/ SioClose /\ SioOnly
    \/ SioReadError /\ SioOnly
    \/ SioSleep /\ SioOnly

(***************************************************************************)
(* main.rs (admin routing), admin/router.rs, admin/middleware.rs           *)
(***************************************************************************)
MaxAdminRequests == 3

\* config.admin_api_key: absent, empty, blank, or a key (one with a space)
AdminKeyConfigs == {None, Some(<< >>), Some(<<" ">>), Some(<<"k">>), Some(<<"k", " ">>)}

\* the values a request can carry in x-api-key or after "Bearer "
AdminKeyValues == { <<"k">>, <<"k", " ">>, <<"x">>, << >> }

AdminHeaders == {"x-api-key", "authorization"}

\* routes of create_admin_router, one for each kind of state they reach
AdminRoutes == {"GET /credentials", "POST /credentials", "PUT /config/proxy",
                "POST /api-keys", "POST /token-usage/reset", "POST /sync/config"}

SyncConfigs == {"none", "s1", "s2"}

\* a request carries no key, or one in x-api-key, or one as Bearer token
AdminRequests ==
    { [route |-> r, key |-> k] :
        r \in AdminRoutes,
        k \in {None} \cup { Some([header |-> h, value |-> v]) :
                              h \in AdminHeaders, v \in AdminKeyValues } }

\* common::auth::extract_api_key : the value of x-api-key or of the Bearer token
extract_api_key(request) ==
    IF IsSome(request.key) THEN Some(Unwrap(request.key).value) ELSE None

\* main: the admin router is nested only for a key that is not blank
admin_key_valid(configured) ==
    IF IsSome(configured) THEN Trim(Unwrap(configured)) # << >> ELSE FALSE

\* a guard that accepts every request that carries a key
admits_any_key(request, configured) == IsSome(extract_api_key(request))

\* the guard of admin_auth_middleware:
\* Some(key) if constant_time_eq(&key, &state.admin_api_key)
admits(request, configured) ==
    /\ IsSome(extract_api_key(request))
    /\ constant_time_eq(Unwrap(extract_api_key(request)), configured)

InitAdmin ==
    /\ admin_api_key \in AdminKeyConfigs
    /\ sync_config = "none"
    /\ adm_request = None
    /\ adm_status = 0
    /\ adm_count = 0

\* the admin API while another subsystem is at work
AdminIdle ==
    /\ InitAdmin
    /\ admin_api_key = None

\* next.run(request): the handler of the route
\* set_proxy_config: shared_proxy.set(new_proxy), then shared_proxy.get()
SetProxyConfig(c) ==
    /\ setsStarted < MaxSets
    /\ proxy_config' = c
    /\ proxy_version' = fetch_add(proxy_version, 1)
    /\ getRes' = Some(c)
    /\ lastOp' = "get"
    /\ lastSet' = c
    /\ setsStarted' = setsStarted + 1
    /\ UNCHANGED <<spc, verRes, overlapped>>
    /\ UNCHANGED <<keyVars, ledgerVars, syncVars, clientVars, sync_config>>

\* create_api_key: store.write().add(..)
CreateApiKey(k, ok) ==
    /\ Add(k, "Default", ok)
    /\ UNCHANGED <<ledgerVars, syncVars, proxyVars, clientVars, sync_config>>

\* reset_token_usage: tracker.reset() starts
ResetTokenUsage ==
    /\ nCalls < MaxCalls
    /\ Reset(1)
    /\ UNCHANGED <<keyVars, syncVars, proxyVars, clientVars, sync_config>>

\* add_credential through AdminService: the pool operation
AdminAddCredential(accepted) ==
    /\ pool' = add_credential(pool, accepted).pool
    /\ UNCHANGED <<chanVars, taskVars, cmdVars, cmdHist, last_sync_version, credentials, apc,
                   serverVersion>>
    /\ UNCHANGED <<keyVars, ledgerVars, proxyVars, clientVars, sync_config>>

\* save_sync_config: the sync block is written
SaveSyncConfig(v) ==
    /\ sync_config' = v
    /\ UNCHANGED <<keyVars, ledgerVars, syncVars, proxyVars, clientVars>>

\* get_all_credentials: a read
GetAllCredentials ==
    UNCHANGED <<keyVars, ledgerVars, syncVars, proxyVars, clientVars, sync_config>>

Handler(route) ==
    CASE route = "PUT /config/proxy" -> \E c \in ProxyConfigs : SetProxyConfig(c)
      [] route = "POST /api-keys" -> \E k \in Strs, ok \in BOOLEAN : CreateApiKey(k, ok)
      [] route = "POST /token-usage/reset" -> ResetTokenUsage
      [] route = "POST /credentials" -> \E accepted \in BOOLEAN : AdminAddCredential(accepted)
      [] route = "POST /sync/config" -> \E v \in SyncConfigs : SaveSyncConfig(v)
      [] OTHER -> GetAllCredentials

\* a request to /api/admin/..: without the nested router the fallback answers
\* 404; with it admin_auth_middleware answers 401 or runs the handler
AdminRequest(request) ==
    /\ adm_request' = Some(request)
    /\ adm_count' = adm_count + 1
    /\ UNCHANGED admin_api_key
    /\ IF ~admin_key_valid(admin_api_key)
         THEN /\ adm_status' = 404
              /\ UNCHANGED <<keyVars, ledgerVars, syncVars, proxyVars, clientVars,
                             sync_config>>
         ELSE IF admits(request, Unwrap(admin_api_key))
                THEN /\ adm_status' = 200
                     /\ Handler(request.route)
                ELSE /\ adm_status' = 401
                     /\ UNCHANGED <<keyVars, ledgerVars, syncVars, proxyVars, clientVars, sync_config>>

NextAdmin ==
    \/ adm_count < MaxAdminRequests /\ (\E request \in AdminRequests : AdminRequest(request))
    \/ MarkDirty(1) /\ LedgerOnly
    \/ SaveSerialize(1) /\ LedgerOnly

(***************************************************************************)
(* api_key_store.rs : list, get, to_view, mask_key                         *)
(***************************************************************************)
MaxViewEntries == 2

\* keys of 2, 3 and 10 characters
ViewKeys == { <<"a", "b">>, <<"a", "b", "c">>,
              <<"s", "k", "-", "1", "2", "3", "4", "x", "y", "z">> }

\* the characters mask_key leaves out: all but the first 2 of a key of at most
\* 9 characters, all but the first 6 and the last 3 of a longer one
Hidden(key, i) ==
    IF Len(key) <= 9 THEN i > 2 ELSE i > 6 /\ i <= Len(key) - 3

TwinKeys(key) ==
    { [i \in 1..Len(key) |-> IF Hidden(key, i) THEN c ELSE key[i]] : c \in {"#"} }
      \cup {key}

ViewStores(keys) ==
    UNION { [1..n -> { [id |-> i, key |-> k, label |-> "Default", disabled |-> d] :
                         i \in 1..MaxViewEntries, k \in keys, d \in BOOLEAN }] :
            n \in 1..MaxViewEntries }

\* mask_key
mask_key(key) ==
    IF Len(key) <= 9
      THEN SubSeq(key, 1, min(2, Len(key))) \o <<"*", "*", "*">>
      ELSE SubSeq(key, 1, 6) \o <<"*", "*", "*">> \o SubSeq(key, Len(key) - 2, Len(key))

\* ApiKeyStore::to_view
to_view(entry) ==
    [id |-> entry.id, key |-> mask_key(entry.key), full_key |-> entry.key,
     key_length |-> Len(entry.key), label |-> entry.label, disabled |-> entry.disabled]

\* ApiKeyStore::list
list(es) == [i \in 1..Len(es) |-> to_view(es[i])]

\* ApiKeyStore::get
get(es, id) ==
    IF IndexOf(es, id) = 0 THEN None ELSE Some(to_view(es[IndexOf(es, id)]))

\* two stores with unique ids whose keys agree outside the hidden characters
InitViews ==
    /\ view_store \in ViewStores(ViewKeys)
    /\ \A i, j \in 1..Len(view_store) : view_store[i].id = view_store[j].id => i = j
    /\ view_twin \in ViewStores(UNION { TwinKeys(k) : k \in ViewKeys })
    /\ Len(view_twin) = Len(view_store)
    /\ \A i \in 1..Len(view_store) :
         /\ view_twin[i].key \in TwinKeys(view_store[i].key)
         /\ view_twin[i] = [view_store[i] EXCEPT !.key = view_twin[i].key]
    /\ view_res = None

\* no view is asked for while another subsystem is at work
ViewsIdle ==
    /\ view_store = << >>
    /\ view_twin = << >>
    /\ view_res = None

\* GET /api-keys on both stores
ViewList ==
    /\ view_res' = Some([a |-> list(view_store), b |-> list(view_twin)])
    /\ UNCHANGED <<view_store, view_twin>>

\* GET /api-keys/{id} on both stores
ViewGet(id) ==
    /\ view_res' = Some([a |-> get(view_store, id), b |-> get(view_twin, id)])
    /\ UNCHANGED <<view_store, view_twin>>

NextViews ==
    \/ ViewList /\ ViewsOnly
    \/ (\E id \in 1..MaxViewEntries : ViewGet(id)) /\ ViewsOnly

(***************************************************************************)
(* user_api/handlers.rs : extract_api_key, authenticate, get_user_usage    *)
(***************************************************************************)
UsageKeyStrs == { <<"a">>, <<"b">> }

Bearer == <<"B", "e", "a", "r", "e", "r", " ">>

\* a request without a key, with a known or an unknown key in x-api-key, with
\* a Bearer token, with an authorization value that is no Bearer token, and
\* with both headers
UsageHeaders ==
    { [x_api_key |-> None, authorization |-> None],
      [x_api_key |-> Some(<<"a">>), authorization |-> None],
      [x_api_key |-> Some(<<"c">>), authorization |-> None],
      [x_api_key |-> None, authorization |-> Some(Bearer \o <<"b">>)],
      [x_api_key |-> None, authorization |-> Some(<<"b">>)],
      [x_api_key |-> Some(<<"a">>), authorization |-> Some(Bearer \o <<"b">>)] }

\* str::strip_prefix
strip_prefix(s, prefix) ==
    IF Len(s) >= Len(prefix) /\ SubSeq(s, 1, Len(prefix)) = prefix
    THEN Some(SubSeq(s, Len(prefix) + 1, Len(s)))
    ELSE None

\* user_api::handlers::extract_api_key : x-api-key first, then the Bearer token
user_extract_api_key(headers) ==
    IF IsSome(headers.x_api_key) THEN headers.x_api_key
    ELSE IF IsSome(headers.authorization)
         THEN strip_prefix(Unwrap(headers.authorization), Bearer)
         ELSE None

\* user_api::handlers::authenticate : the key's ApiKeyInfo, or None for 401
user_authenticate(headers, es) ==
    IF IsSome(user_extract_api_key(headers))
    THEN authenticate(es, Unwrap(user_extract_api_key(headers)))
    ELSE None

\* stores that add, update and delete lead to: ids ascend in the order of
\* creation, two entries may hold the same key, any entry may be disabled
UsageStores ==
    { es \in UNION { [1..n -> { NewEntry(i, k, "Default") : i \in 1..2, k \in UsageKeyStrs }
                                \cup { [NewEntry(i, k, "Default") EXCEPT !.disabled = TRUE] :
                                         i \in 1..2, k \in UsageKeyStrs }] : n \in 0..2 } :
        \A i, j \in 1..Len(es) : i < j => es[i].id < es[j].id }

\* a key store without a file, and no request answered yet
InitUsage ==
    /\ entries \in UsageStores
    /\ next_id = 3
    /\ keysPath = FALSE
    /\ keysFile = None
    /\ legacy_api_key = None
    /\ authResp = None
    /\ usage_response = None

\* no usage request while another subsystem is at work
UsageIdle == usage_response = None

\* get_user_usage
GetUserUsage(headers) ==
    LET info == user_authenticate(headers, entries) IN
      usage_response' =
        Some([headers |-> headers,
              status |-> IF IsSome(info) THEN 200 ELSE 401,
              body |-> IF IsSome(info)
                       THEN Some(get_stats_for_api_key(stats, Unwrap(info).id))
                       ELSE None])

\* requests are recorded under a key or under none while users ask for their usage
NextUsage ==
    \/ \E k \in OptOf(KeyIds) :
          nCalls < MaxCalls /\ Record(1, "m1", 1, 2, 3, k) /\ LedgerOnly
    \/ MarkDirty(1) /\ LedgerOnly
    \/ CheckDebounce(1) /\ LedgerOnly
    \/ SaveSerialize(1) /\ LedgerOnly
    \/ \E h \in UsageHeaders : GetUserUsage(h) /\ UsageOnly

(***************************************************************************)
(* token_usage.rs : get_timeseries_stats                                   *)
(***************************************************************************)
TimeGranularity == {"hour", "day", "week"}

\* buffer lengths: a short one, and one above each of the three limits
SeriesLengths == {2, 13, 31, 49}

\* minutes between two records: half an hour, an hour, a day, a week
SeriesSteps == {30, 60, 1440, 10080}

\* 2024-12-29T23:30Z (a Sunday), in minutes since 1970
SeriesStarts == {20086 * 1440 + 1410}

\* a timestamp string: its wall-clock minutes since 1970 and its UTC offset,
\* or a string that is no RFC 3339 timestamp
Stamp(utc, offset) == [valid |-> TRUE, local |-> utc + offset, offset |-> offset]
BadStamp == [valid |-> FALSE, local |-> 0, offset |-> 0]

SeriesRecord(ts, i) == [timestamp |-> ts, input_tokens |-> i, output_tokens |-> 2]

\* n records step minutes apart, oldest or newest first, written with offset
\* +00:00 and +08:00 in turn, with or without an unreadable record in front
SeriesBuffer(n, start, step, newest_first, bad) ==
    (IF bad THEN << SeriesRecord(BadStamp, 1) >> ELSE << >>) \o
    [i \in 1..n |->
       SeriesRecord(Stamp(start + step * (IF newest_first THEN n - i ELSE i - 1),
                          IF i % 2 = 0 THEN 480 ELSE 0), i)]

\* DateTime::parse_from_rfc3339 followed by with_timezone(&Utc): UTC minutes
parse_from_rfc3339(ts) == IF ts.valid THEN Some(ts.local - ts.offset) ELSE None

\* the civil date of a day number (days since 1970-01-01)
Civil(day) ==
    LET z == day + 719468
        era == z \div 146097
        doe == z - era * 146097
        yoe == (doe - doe \div 1460 + doe \div 36524 - doe \div 146096) \div 365
        doy == doe - (365 * yoe + yoe \div 4 - yoe \div 100)
        mp == (5 * doy + 2) \div 153
        mo == IF mp < 10 THEN mp + 3 ELSE mp - 9
    IN [year |-> yoe + era * 400 + (IF mo <= 2 THEN 1 ELSE 0),
        month |-> mo,
        day |-> doy - (153 * mp + 2) \div 5 + 1]

Pad2(n) == << Digit(n \div 10), Digit(n % 10) >>
Pad4(n) == Pad2(n \div 100) \o Pad2(n % 100)

\* dt.format("%Y-%m-%dT%H:00:00Z") with the hour given
format(dt, hour) ==
    LET c == Civil(dt \div 1440) IN
      Pad4(c.year) \o <<"-">> \o Pad2(c.month) \o <<"-">> \o Pad2(c.day) \o <<"T">>
        \o Pad2(hour) \o <<":", "0", "0", ":", "0", "0", "Z">>

\* Weekday::num_days_from_sunday of a UTC instant (1970-01-01 was a Thursday)
num_days_from_sunday(dt) == (dt \div 1440 + 4) % 7

\* dt.weekday().num_days_from_monday()
num_days_from_monday(dt) == (dt \div 1440 + 3) % 7

\* the time_key of a record's instant
time_key(granularity, dt) ==
    CASE granularity = "hour" -> format(dt, (dt \div 60) % 24)
      [] granularity = "day" -> format(dt, 0)
      [] granularity = "week" -> format(dt - num_days_from_monday(dt) * 1440, 0)

\* the loop over recent_requests: records without a readable timestamp are skipped
RECURSIVE aggregate(_, _, _)
aggregate(records, granularity, aggregated) ==
    IF records = << >> THEN aggregated
    ELSE LET record == Head(records)
             dt == parse_from_rfc3339(record.timestamp)
         IN IF ~IsSome(dt) THEN aggregate(Tail(records), granularity, aggregated)
            ELSE LET k == time_key(granularity, Unwrap(dt))
                     entry == IF k \in DOMAIN aggregated THEN aggregated[k]
                              ELSE [time_key |-> k, input_tokens |-> 0,
                                    output_tokens |-> 0, requests |-> 0]
                     bumped == [entry EXCEPT
                                  !.input_tokens = @ + record.input_tokens,
                                  !.output_tokens = @ + record.output_tokens,
                                  !.requests = @ + 1]
                 IN aggregate(Tail(records), granularity,
                              [x \in DOMAIN aggregated \cup {k} |->
                                 IF x = k THEN bumped ELSE aggregated[x]])

\* the byte of a character of a time_key
Byte(c) ==
    CASE c = "-" -> 45 [] c = "0" -> 48 [] c = "1" -> 49 [] c = "2" -> 50
      [] c = "3" -> 51 [] c = "4" -> 52 [] c = "5" -> 53 [] c = "6" -> 54
      [] c = "7" -> 55 [] c = "8" -> 56 [] c = "9" -> 57 [] c = ":" -> 58
      [] c = "T" -> 84 [] c = "Z" -> 90

\* str::cmp is Less: bytewise, a proper prefix first
StrLess(a, b) ==
    LET diff == { i \in 1..min(Len(a), Len(b)) : a[i] # b[i] } IN
      IF diff = {} THEN Len(a) < Len(b)
      ELSE LET i == CHOOSE x \in diff : \A y \in diff : x <= y
           IN Byte(a[i]) < Byte(b[i])

\* data.sort_by(|a, b| b.time_key.cmp(&a.time_key)) : newest first
sort_by(aggregated) ==
    LET before == [k \in DOMAIN aggregated |->
                     Cardinality({ x \in DOMAIN aggregated : StrLess(k, x) })]
    IN [i \in 1..Cardinality(DOMAIN aggregated) |->
          aggregated[CHOOSE k \in DOMAIN aggregated : before[k] = i - 1]]

\* the number of data points kept
limit(granularity) ==
    CASE granularity = "hour" -> 48
      [] granularity = "day" -> 30
      [] granularity = "week" -> 12

\* Vec::truncate
truncate(data, len) == SubSeq(data, 1, min(len, Len(data)))

\* TokenUsageTracker::get_timeseries_stats : the data of the response
get_timeseries_stats(records, granularity) ==
    truncate(sort_by(aggregate(records, granularity, EmptyMap)), limit(granularity))

InitSeries ==
    /\ series_records \in
         { SeriesBuffer(n, start, step, newest_first, bad) :
             n \in SeriesLengths, start \in SeriesStarts, step \in SeriesSteps,
             newest_first \in BOOLEAN, bad \in BOOLEAN }
    /\ series_res = None

\* no time series is asked for while another subsystem is at work
SeriesIdle ==
    /\ series_records = << >>
    /\ series_res = None

\* GET /token-usage/timeseries
GetTimeseries(granularity) ==
    /\ series_res' = Some([granularity |-> granularity,
                           data |-> get_timeseries_stats(series_records, granularity)])
    /\ UNCHANGED series_records

NextSeries ==
    \E g \in TimeGranularity : GetTimeseries(g) /\ SeriesOnly

(***************************************************************************)
(* The credential pool: admin/handlers.rs (set_disabled, set_priority,     *)
(* set_primary, reset, add, delete) and main.rs (the sorted list at start) *)
(***************************************************************************)
MaxPoolId == 3
\* the priorities given to credentials
Priorities == {0, 1, 2}

Credential(id, priority, disabled) ==
    [id |-> id, priority |-> priority, disabled |-> disabled]

\* the sort key: priority ascending, then id ascending
CredLess(a, b) ==
    \/ a.priority < b.priority
    \/ a.priority = b.priority /\ a.id < b.id

\* a pool that is left in the order the mutation found it
keep_order(creds) == creds

\* the pool sorted by (priority, id); ids are unique
sort_credentials(creds) ==
    LET n == Len(creds)
        before == [i \in 1..n |-> Cardinality({ j \in 1..n : CredLess(creds[j], creds[i]) })]
    IN [k \in 1..n |-> creds[CHOOSE i \in 1..n : before[i] = k - 1]]

PoolHas(creds, id) == \E i \in 1..Len(creds) : creds[i].id = id

PriorityOf(creds, id) == creds[CHOOSE i \in 1..Len(creds) : creds[i].id = id].priority

\* CredentialsConfig::into_sorted_credentials
into_sorted_credentials(creds) == sort_credentials(creds)

\* set_disabled(id, disabled)
pool_set_disabled(creds, id, disabled) ==
    sort_credentials([i \in 1..Len(creds) |->
        IF creds[i].id = id THEN [creds[i] EXCEPT !.disabled = disabled] ELSE creds[i]])

\* set_priority(id, priority)
set_priority(creds, id, priority) ==
    sort_credentials([i \in 1..Len(creds) |->
        IF creds[i].id = id THEN [creds[i] EXCEPT !.priority = priority] ELSE creds[i]])

\* set_primary that leaves the other credentials where they are
set_primary_only(creds, id) == set_priority(creds, id, 0)

\* set_primary(id): this id to priority 0, the others that were at 0 one down
set_primary(creds, id) ==
    sort_credentials([i \in 1..Len(creds) |->
        IF creds[i].id = id THEN [creds[i] EXCEPT !.priority = 0]
        ELSE IF creds[i].priority = 0 THEN [creds[i] EXCEPT !.priority = 1]
        ELSE creds[i]])

\* reset(id): the failure count cleared, disabled = false
reset_and_enable(creds, id) == pool_set_disabled(creds, id, FALSE)

\* add(credential): the next id after the largest one
pool_add(creds, priority) ==
    LET id == IF creds = << >> THEN 1
              ELSE 1 + (CHOOSE m \in { creds[i].id : i \in 1..Len(creds) } :
                          \A i \in 1..Len(creds) : creds[i].id <= m)
    IN sort_credentials(Append(creds, Credential(id, priority, FALSE)))

\* delete(id)
pool_delete(creds, id) == sort_credentials(SelectSeq(creds, LAMBDA c : c.id # id))

\* the credentials file as loaded: unique ids in any order
PoolFiles ==
    { f \in UNION { [1..n -> { Credential(i, q, FALSE) :
                                 i \in 1..MaxPoolId, q \in Priorities }] : n \in 0..2 } :
        \A i, j \in 1..Len(f) : f[i].id = f[j].id => i = j }

PoolOp(kind, id, ok) == [kind |-> kind, id |-> id, ok |-> ok]

InitPool ==
    /\ cred_pool \in { into_sorted_credentials(f) : f \in PoolFiles }
    /\ pool_op = PoolOp("load", 0, TRUE)

\* no pool mutation while another subsystem is at work
PoolIdle ==
    /\ cred_pool = << >>
    /\ pool_op = None

\* a mutation of an id the pool does not hold returns an error and changes nothing
PoolMutation(kind, id, after) ==
    /\ cred_pool' = IF PoolHas(cred_pool, id) THEN after ELSE cred_pool
    /\ pool_op' = PoolOp(kind, id, PoolHas(cred_pool, id))

PoolSetDisabled(id, disabled) ==
    PoolMutation("set_disabled", id, pool_set_disabled(cred_pool, id, disabled))

PoolSetPriority(id, priority) ==
    PoolMutation("set_priority", id, set_priority(cred_pool, id, priority))

PoolSetPrimary(id) ==
    PoolMutation("set_primary", id, set_primary(cred_pool, id))

PoolReset(id) ==
    PoolMutation("reset", id, reset_and_enable(cred_pool, id))

PoolDelete(id) ==
    PoolMutation("delete", id, pool_delete(cred_pool, id))

PoolAdd(priority) ==
    /\ \A i \in 1..Len(cred_pool) : cred_pool[i].id < MaxPoolId
    /\ cred_pool' = pool_add(cred_pool, priority)
    /\ pool_op' = PoolOp("add", 0, TRUE)

NextPool ==
    \/ \E id \in 1..MaxPoolId, d \in BOOLEAN : PoolSetDisabled(id, d) /\ PoolOnly
    \/ \E id \in 1..MaxPoolId, q \in Priorities : PoolSetPriority(id, q) /\ PoolOnly
    \/ \E id \in 1..MaxPoolId : PoolSetPrimary(id) /\ PoolOnly
    \/ \E id \in 1..MaxPoolId : PoolReset(id) /\ PoolOnly
    \/ \E id \in 1..MaxPoolId : PoolDelete(id) /\ PoolOnly
    \/ \E q \in Priorities : PoolAdd(q) /\ PoolOnly

(***************************************************************************)
(* Token Manager : ensure_fresh_access_token(id) under a per-credential    *)
(* refresh mutex                                                           *)
(***************************************************************************)
MaxCallers == 3

Callers == 1..MaxCallers
RefreshCreds == {1, 2}

InitRefresh ==
    /\ access_token = [id \in RefreshCreds |-> 0]
    /\ refresh_lock = [id \in RefreshCreds |-> 0]
    /\ fpc = [c \in Callers |-> "idle"]
    /\ fcred = [c \in Callers |-> 1]
    /\ fret = [c \in Callers |-> None]
    /\ refreshes = [id \in RefreshCreds |-> 0]
    /\ failures = [id \in RefreshCreds |-> 0]
    /\ parallel = FALSE

\* no caller asks for a token while another subsystem is at work
RefreshIdle ==
    /\ access_token = 0
    /\ refresh_lock = 0
    /\ fpc = 0
    /\ fcred = 0
    /\ fret = 0
    /\ refreshes = 0
    /\ failures = 0
    /\ parallel = FALSE

\* a caller that takes the mutex whoever holds it
may_acquire_always(c) == TRUE

\* the per-credential mutex is free
may_acquire(c) == refresh_lock[fcred[c]] = 0

\* ensure_fresh_access_token(id) is called
EnsureFresh(c, id) ==
    /\ fpc[c] = "idle"
    /\ fpc' = [fpc EXCEPT ![c] = "lock"]
    /\ fcred' = [fcred EXCEPT ![c] = id]
    /\ UNCHANGED <<access_token, refresh_lock, fret, refreshes, failures, parallel>>

\* the caller acquires the credential's refresh mutex
Acquire(c) ==
    /\ fpc[c] = "lock"
    /\ may_acquire(c)
    /\ refresh_lock' = [refresh_lock EXCEPT ![fcred[c]] = c]
    /\ fpc' = [fpc EXCEPT ![c] = "check"]
    /\ UNCHANGED <<access_token, fcred, fret, refreshes, failures, parallel>>

\* under the mutex: return a token that is fresh by now, else send the refresh
CheckFresh(c) ==
    LET id == fcred[c] IN
      /\ fpc[c] = "check"
      /\ IF access_token[id] # 0
         THEN /\ fret' = [fret EXCEPT ![c] = Some(access_token[id])]
              /\ refresh_lock' = [refresh_lock EXCEPT ![id] = 0]
              /\ fpc' = [fpc EXCEPT ![c] = "done"]
              /\ UNCHANGED <<refreshes, parallel>>
         ELSE /\ refreshes' = [refreshes EXCEPT ![id] = @ + 1]
              /\ parallel' = (parallel \/ \E d \in Callers :
                                            fpc[d] = "refreshing" /\ fcred[d] # id)
              /\ fpc' = [fpc EXCEPT ![c] = "refreshing"]
              /\ UNCHANGED <<fret, refresh_lock>>
      /\ UNCHANGED <<access_token, fcred, failures>>

\* the refresh endpoint answers: the token is stored and returned, or the
\* error is returned; the mutex is released
RefreshDone(c, ok) ==
    LET id == fcred[c] IN
      /\ fpc[c] = "refreshing"
      /\ access_token' = IF ok THEN [access_token EXCEPT ![id] = refreshes[id]]
                         ELSE access_token
      /\ failures' = IF ok THEN failures ELSE [failures EXCEPT ![id] = @ + 1]
      /\ fret' = [fret EXCEPT ![c] = Some(IF ok THEN refreshes[id] ELSE 0)]
      /\ refresh_lock' = [refresh_lock EXCEPT ![id] = 0]
      /\ fpc' = [fpc EXCEPT ![c] = "done"]
      /\ UNCHANGED <<fcred, refreshes, parallel>>

NextRefresh ==
    \/ \E c \in Callers, id \in RefreshCreds : EnsureFresh(c, id) /\ RefreshOnly
    \/ \E c \in Callers : Acquire(c) /\ RefreshOnly
    \/ \E c \in Callers : CheckFresh(c) /\ RefreshOnly
    \/ \E c \in Callers, ok \in BOOLEAN : RefreshDone(c, ok) /\ RefreshOnly

(***************************************************************************)
(* Response Translator, streaming mode: upstream events to SSE events      *)
(***************************************************************************)
MaxSseEvents == 8

ToolUseIds == {"t1", "t2"}

SseEvent(name, index) == [event |-> name, index |-> index]

\* an open block that is left open when the next one is opened
close_nothing(open) == << >>

\* the content_block_stop of the block that is open, if one is
close_open(open) ==
    IF IsSome(open) THEN << SseEvent("content_block_stop", Unwrap(open).index) >> ELSE << >>

InitSse ==
    /\ sse_events = << SseEvent("message_start", -1) >>
    /\ sse_open = None
    /\ sse_next = 0
    /\ sse_phase = "streaming"

\* no response is streamed while another subsystem is at work
SseIdle ==
    /\ sse_events = << >>
    /\ sse_open = None
    /\ sse_next = 0
    /\ sse_phase = "idle"

\* AssistantResponse: a text chunk goes to the open text block, or to a new one
\* opened after the open tool-use block is stopped
OnAssistantResponse ==
    /\ sse_phase = "streaming" /\ Len(sse_events) < MaxSseEvents
    /\ IF IsSome(sse_open) /\ Unwrap(sse_open).type = "text"
       THEN /\ sse_events' = Append(sse_events,
                                    SseEvent("content_block_delta", Unwrap(sse_open).index))
            /\ UNCHANGED <<sse_open, sse_next>>
       ELSE /\ sse_events' = sse_events \o close_open(sse_open) \o
                               << SseEvent("content_block_start", sse_next),
                                  SseEvent("content_block_delta", sse_next) >>
            /\ sse_open' = Some([index |-> sse_next, type |-> "text", id |-> "text"])
            /\ sse_next' = sse_next + 1
    /\ UNCHANGED sse_phase

\* ToolUse: an input chunk goes to the open block of that tool_use_id, or to a
\* new tool_use block; the chunk that carries stop closes the block
OnToolUse(id, stop) ==
    /\ sse_phase = "streaming" /\ Len(sse_events) < MaxSseEvents
    /\ LET same == IsSome(sse_open) /\ Unwrap(sse_open).id = id
           index == IF same THEN Unwrap(sse_open).index ELSE sse_next
           opened == IF same THEN << >>
                     ELSE close_open(sse_open) \o << SseEvent("content_block_start", index) >>
           closed == IF stop THEN << SseEvent("content_block_stop", index) >> ELSE << >>
       IN /\ sse_events' = sse_events \o opened
                             \o << SseEvent("content_block_delta", index) >> \o closed
          /\ sse_open' = IF stop THEN None
                         ELSE Some([index |-> index, type |-> "tool_use", id |-> id])
          /\ sse_next' = IF same THEN sse_next ELSE sse_next + 1
    /\ UNCHANGED sse_phase

\* the upstream stream ends: the open block is stopped, then message_delta
\* with the stop_reason and message_stop
OnEnd ==
    /\ sse_phase = "streaming"
    /\ sse_events' = sse_events \o close_open(sse_open) \o
                       << SseEvent("message_delta", -1), SseEvent("message_stop", -1) >>
    /\ sse_open' = None
    /\ sse_phase' = "stopped"
    /\ UNCHANGED sse_next

\* an upstream Error event or a decoder error: message_delta with
\* stop_reason error and a trailing error event terminate the stream
OnError ==
    /\ sse_phase = "streaming"
    /\ sse_events' = sse_events \o << SseEvent("message_delta", -1), SseEvent("error", -1) >>
    /\ sse_phase' = "error"
    /\ UNCHANGED <<sse_open, sse_next>>

\* the client disconnects: the upstream read is cancelled, nothing more is written
OnDisconnect ==
    /\ sse_phase = "streaming"
    /\ sse_phase' = "disconnected"
    /\ UNCHANGED <<sse_events, sse_open, sse_next>>

NextSse ==
    \/ OnAssistantResponse /\ SseOnly
    \/ \E id \in ToolUseIds, stop \in BOOLEAN : OnToolUse(id, stop) /\ SseOnly
    \/ OnEnd /\ SseOnly
    \/ OnError /\ SseOnly
    \/ OnDisconnect /\ SseOnly

(***************************************************************************)
(* sync/manager.rs : last_sync_version under the periodic cycle and        *)
(* sync_now, with the responses in flight                                  *)
(***************************************************************************)
MaxServerVersion == 2

InitVersion ==
    /\ vpc = "pull"
    /\ cycle_resp = None
    /\ now_resp = None

\* no request is in flight while another subsystem is at work
VersionIdle == InitVersion

\* the server answers the periodic get_changes with its current_version, or
\* the request fails
CycleGetChanges(ok) ==
    /\ vpc = "pull"
    /\ cycle_resp' = IF ok THEN Some(serverVersion) ELSE None
    /\ vpc' = "pulled"
    /\ UNCHANGED <<last_sync_version, serverVersion, now_resp>>

\* Ok(changes) => *last_sync_version.write() = changes.current_version
CycleStorePulled ==
    /\ vpc = "pulled"
    /\ last_sync_version' = IF IsSome(cycle_resp) THEN Unwrap(cycle_resp)
                            ELSE last_sync_version
    /\ cycle_resp' = None
    /\ vpc' = "push"
    /\ UNCHANGED <<serverVersion, now_resp>>

\* the server applies the push, which may create a version, and answers with
\* its current_version, or the request fails
CyclePushChanges(ok, created) ==
    /\ vpc = "push"
    /\ created => serverVersion < MaxServerVersion
    /\ serverVersion' = IF ok /\ created THEN serverVersion + 1 ELSE serverVersion
    /\ cycle_resp' = IF ok THEN Some(serverVersion') ELSE None
    /\ vpc' = "pushed"
    /\ UNCHANGED <<last_sync_version, now_resp>>

\* Ok(response) => *last_sync_version.write() = response.current_version
CycleStorePushed ==
    /\ vpc = "pushed"
    /\ last_sync_version' = IF IsSome(cycle_resp) THEN Unwrap(cycle_resp)
                            ELSE last_sync_version
    /\ cycle_resp' = None
    /\ vpc' = "pull"
    /\ UNCHANGED <<serverVersion, now_resp>>

\* sync_now: the server answers get_changes (an error returns at once)
SyncNowGetChanges ==
    /\ now_resp = None
    /\ now_resp' = Some(serverVersion)
    /\ UNCHANGED <<last_sync_version, serverVersion, vpc, cycle_resp>>

\* sync_now: *self.last_sync_version.write() = changes.current_version
SyncNowStore ==
    /\ IsSome(now_resp)
    /\ last_sync_version' = Unwrap(now_resp)
    /\ now_resp' = None
    /\ UNCHANGED <<serverVersion, vpc, cycle_resp>>

\* another device pushes: current_version grows
ServerAdvance ==
    /\ serverVersion < MaxServerVersion
    /\ serverVersion' = serverVersion + 1
    /\ UNCHANGED <<last_sync_version, vpc, cycle_resp, now_resp>>

NextVersion ==
    \/ \E ok \in BOOLEAN : CycleGetChanges(ok) /\ VersionOnly
    \/ CycleStorePulled /\ VersionOnly
    \/ \E ok \in BOOLEAN, created \in BOOLEAN : CyclePushChanges(ok, created) /\ VersionOnly
    \/ CycleStorePushed /\ VersionOnly
    \/ SyncNowGetChanges /\ VersionOnly
    \/ SyncNowStore /\ VersionOnly
    \/ ServerAdvance /\ VersionOnly

(***************************************************************************)
(* config.json : set_proxy_config, save_sync_config and                    *)
(* SyncManager::save_config_to_file, each a load, a change and a write     *)
(***************************************************************************)
ConfigWriters == {"proxy", "sync", "token"}
\* the proxy and the sync settings in the file at start-up and in the two
\* requests, and the token auto_authenticate returns
OldProxies == {None, Some("p0")}
NewProxy == Some("p1")
OldSettings == "s0"
NewSettings == "s1"
AuthToken == "t"

SyncConfig(settings, auth_token) ==
    [settings |-> settings, auth_token |-> auth_token]

\* Config::default : no proxy, no syncConfig
ConfigDefault == [proxy |-> None, sync_config |-> None]

\* Config::load : the default configuration when the file does not exist
Config_load(file) == IF file = None THEN ConfigDefault ELSE Unwrap(file)

CfgTask(pc, cfg, own) == [pc |-> pc, cfg |-> cfg, own |-> own]

\* sync is enabled with no token yet, so that start() authenticates and
\* persists the token
InitConfig ==
    /\ \E px \in OldProxies :
         config_file = Some([proxy |-> px,
                             sync_config |-> Some(SyncConfig(OldSettings, None))])
    /\ manager_config = SyncConfig(OldSettings, None)
    /\ cfg_tasks = [w \in ConfigWriters |-> CfgTask("idle", None, None)]

\* nothing rewrites the file while another subsystem is at work
ConfigIdle ==
    /\ config_file = None
    /\ manager_config = None
    /\ cfg_tasks = None

\* set_proxy_config : Config::load(&path)
ProxyLoad(ok) ==
    /\ cfg_tasks["proxy"].pc = "idle"
    /\ cfg_tasks' = [cfg_tasks EXCEPT !["proxy"] =
          IF ok THEN CfgTask("loaded", Config_load(config_file), None)
          ELSE CfgTask("failed", None, None)]
    /\ UNCHANGED <<config_file, manager_config>>

\* set_proxy_config : the proxy fields are replaced and config.save() writes
\* the whole document
ProxySave(ok) ==
    /\ cfg_tasks["proxy"].pc = "loaded"
    /\ config_file' = IF ok THEN Some([cfg_tasks["proxy"].cfg EXCEPT !.proxy = NewProxy])
                      ELSE config_file
    /\ cfg_tasks' = [cfg_tasks EXCEPT !["proxy"] =
          CfgTask(IF ok THEN "done" ELSE "failed", None, None)]
    /\ UNCHANGED manager_config

\* save_sync_config : Config::load(&path)
SyncLoad(ok) ==
    /\ cfg_tasks["sync"].pc = "idle"
    /\ cfg_tasks' = [cfg_tasks EXCEPT !["sync"] =
          IF ok THEN CfgTask("loaded", Config_load(config_file), None)
          ELSE CfgTask("failed", None, None)]
    /\ UNCHANGED <<config_file, manager_config>>

\* save_sync_config : sync_config takes the fields of the request,
\* config.save() writes the whole document, and update_config hands the new
\* SyncConfig to the SyncManager
SyncSave(ok) ==
    /\ cfg_tasks["sync"].pc = "loaded"
    /\ LET sc == SyncConfig(NewSettings, Some(AuthToken)) IN
         IF ok
           THEN /\ config_file' = Some([cfg_tasks["sync"].cfg EXCEPT
                                          !.sync_config = Some(sc)])
                /\ manager_config' = sc
           ELSE UNCHANGED <<config_file, manager_config>>
    /\ cfg_tasks' = [cfg_tasks EXCEPT !["sync"] =
          CfgTask(IF ok THEN "done" ELSE "failed", None, None)]

\* ensure_authenticated : auto_authenticate has returned; the token goes
\* into the SyncConfig in memory, of which a clone is taken for the file
StoreToken ==
    /\ cfg_tasks["token"].pc = "idle"
    /\ manager_config' = [manager_config EXCEPT !.auth_token = Some(AuthToken)]
    /\ cfg_tasks' = [cfg_tasks EXCEPT !["token"] =
          CfgTask("cloned", None, manager_config')]
    /\ UNCHANGED config_file

\* save_config_to_file : tokio::fs::read_to_string(&config_path).await
ReadConfigFile(ok) ==
    /\ cfg_tasks["token"].pc = "cloned"
    /\ cfg_tasks' = [cfg_tasks EXCEPT !["token"] =
          IF ok /\ IsSome(config_file)
            THEN CfgTask("loaded", Unwrap(config_file), cfg_tasks["token"].own)
            ELSE CfgTask("failed", None, None)]
    /\ UNCHANGED <<config_file, manager_config>>

\* save_config_to_file : "syncConfig" of the document read is replaced by
\* the clone and tokio::fs::write writes the whole document
WriteConfigFile(ok) ==
    /\ cfg_tasks["token"].pc = "loaded"
    /\ config_file' =
          IF ok THEN Some([cfg_tasks["token"].cfg EXCEPT
                             !.sync_config = Some(cfg_tasks["token"].own)])
          ELSE config_file
    /\ cfg_tasks' = [cfg_tasks EXCEPT !["token"] =
          CfgTask(IF ok THEN "done" ELSE "failed", None, None)]
    /\ UNCHANGED manager_config

NextConfig ==
    \/ \E ok \in BOOLEAN : ProxyLoad(ok) /\ ConfigOnly
    \/ \E ok \in BOOLEAN : ProxySave(ok) /\ ConfigOnly
    \/ \E ok \in BOOLEAN : SyncLoad(ok) /\ ConfigOnly
    \/ \E ok \in BOOLEAN : SyncSave(ok) /\ ConfigOnly
    \/ StoreToken /\ ConfigOnly
    \/ \E ok \in BOOLEAN : ReadConfigFile(ok) /\ ConfigOnly
    \/ \E ok \in BOOLEAN : WriteConfigFile(ok) /\ ConfigOnly

(***************************************************************************)
(* sync/manager.rs : is_enabled, and what start, sync_now and the periodic *)
(* task make of it                                                         *)
(***************************************************************************)
\* main calls start() once; start returns at once when sync is not enabled
InitEnabled ==
    /\ sync_enabled \in BOOLEAN
    /\ sync_now_res = None

\* the flag while another subsystem is at work
EnabledIdle ==
    /\ sync_enabled = TRUE
    /\ sync_now_res = None

\* SyncManager::is_enabled
is_enabled == sync_enabled

\* save_sync_config -> update_config : *self.config.write() = Some(config)
UpdateConfig(enabled) ==
    /\ enabled # sync_enabled
    /\ sync_enabled' = enabled
    /\ UNCHANGED <<sync_now_res, syncVars>>

\* start: `if !self.is_enabled() { return Ok(()) }` stands before the first
\* connect_and_register; the reconnect of the periodic task has no such test
StartOrReconnect ==
    /\ ppc = "start" => is_enabled
    /\ ConnectBegin
    /\ UNCHANGED enabledVars

\* sync_now: `if !self.is_enabled() { bail!(..) }`, then get_changes is sent
SyncNowCall ==
    IF is_enabled
      THEN /\ AdminSyncNow
           /\ sync_now_res' = None
           /\ UNCHANGED sync_enabled
      ELSE /\ apc = "idle"
           /\ sync_now_res' = Some("Err")
           /\ UNCHANGED <<sync_enabled, syncVars>>

\* sync_now: get_changes has returned
SyncNowReturn(ok) ==
    /\ AdminSyncDone(ok)
    /\ sync_now_res' = Some(IF ok THEN "Ok" ELSE "Err")
    /\ UNCHANGED sync_enabled

NextEnabled ==
    \/ (\E enabled \in BOOLEAN : UpdateConfig(enabled)) /\ EnabledOnly
    \/ StartOrReconnect /\ EnabledOnly
    \/ SyncNowCall /\ EnabledOnly
    \/ (\E ok \in BOOLEAN : SyncNowReturn(ok)) /\ EnabledOnly
    \/ (\E ok \in BOOLEAN : Connect(ok)) /\ SyncOnly
    \/ (\E ok \in BOOLEAN : EmitRegister(ok)) /\ SyncOnly
    \/ WaitRegistered /\ SyncOnly
    \/ IntervalTick /\ SyncOnly
    \/ (\E observed \in ConnectionState : CheckConnection(observed)) /\ SyncOnly
    \/ PullStart /\ SyncOnly
    \/ (\E ok \in BOOLEAN, env \in Envelopes : PullDone(ok, env)) /\ SyncOnly
    \/ PushStart /\ SyncOnly
    \/ (\E ok \in BOOLEAN, v \in NextVersions : PushDone(ok, v)) /\ SyncOnly

(***************************************************************************)
(* sync/websocket.rs : the heartbeat task of one connection, with the      *)
(* outcome of each of its emits                                            *)
(***************************************************************************)
MaxBeats == 5

InitBeats == hb_log = << >>

\* no heartbeat is emitted while another subsystem is at work
BeatsIdle == hb_log = << >>

\* one iteration of the loop of the heartbeat task: it emits only when it
\* has read Registered
Beat(ok) ==
    /\ Len(hb_log) < MaxBeats
    /\ \E c \in heartbeats : Heartbeat(c, ok)
    /\ hb_log' = IF ws_state = "Registered" THEN Append(hb_log, ok) ELSE hb_log

\* start() connects once; the server answers the registration or reports an
\* error at any time
NextBeats ==
    \/ (ppc = "start" /\ ConnectBegin) /\ SyncOnly
    \/ (\E ok \in BOOLEAN : Connect(ok)) /\ SyncOnly
    \/ (\E ok \in BOOLEAN : EmitRegister(ok)) /\ SyncOnly
    \/ WaitRegistered /\ SyncOnly
    \/ (\E success \in BOOLEAN : DeviceRegistered(success)) /\ SyncOnly
    \/ DeviceError /\ SyncOnly
    \/ (\E ok \in BOOLEAN : Beat(ok)) /\ BeatsOnly

(***************************************************************************)
(* admin/handlers.rs : set_proxy_config, from the request body to the      *)
(* SharedProxy and config.json                                             *)
(***************************************************************************)
MaxPuts == 2

\* UpdateProxyConfigRequest bodies: with and without url, username, password
ProxyUrls == {None, Some(""), Some("http://h")}
ProxyUsers == {None, Some("u")}
ProxyPasswords == {None, Some("pw")}
UpdateProxyConfigRequest ==
    [enabled : BOOLEAN, url : ProxyUrls, username : ProxyUsers, password : ProxyPasswords]

\* the proxy of the configuration the process started with
StartProxies ==
    { None, Some([url |-> "http://h0", username |-> None, password |-> None]) }

\* SharedProxy::new(config.proxy) at startup, and no request handled yet
InitPut ==
    /\ put_response = None
    /\ put_count = 0
    /\ proxy_config \in StartProxies
    /\ proxy_version = 0
    /\ spc = [t \in ProxyCallers |-> "idle"]
    /\ getRes = None
    /\ verRes = None
    /\ lastOp = "new"
    /\ lastSet = proxy_config
    /\ setsStarted = 0
    /\ overlapped = FALSE

\* no request is handled while another subsystem is at work
PutIdle ==
    /\ put_response = None
    /\ put_count = 0

\* a validation that lets every body through
url_never_missing(payload) == FALSE

\* the body asks for a proxy and names no address
url_missing(payload) ==
    /\ payload.enabled
    /\ ~(IsSome(payload.url) /\ Unwrap(payload.url) # "")

\* ProxyConfig::new(&url), with_auth when both username and password are given
new_proxy(payload) ==
    IF payload.enabled
      THEN LET url == IF IsSome(payload.url) THEN Unwrap(payload.url) ELSE ""
               auth == IsSome(payload.username) /\ IsSome(payload.password) IN
             Some([url |-> url,
                   username |-> IF auth THEN payload.username ELSE None,
                   password |-> IF auth THEN payload.password ELSE None])
      ELSE None

\* the proxy fields of config.json after the request
persisted_proxy(payload) ==
    IF payload.enabled
      THEN Some([url |-> payload.url, username |-> payload.username,
                 password |-> payload.password])
      ELSE None

PutResponse(payload, status, body) ==
    Some([request |-> payload, status |-> status, body |-> body])

\* the ProxyConfigResponse built from shared_proxy.get()
ProxyConfigResponse(config) ==
    IF IsSome(config)
      THEN [enabled |-> TRUE, url |-> Some(Unwrap(config).url),
            username |-> Unwrap(config).username,
            has_password |-> IsSome(Unwrap(config).password)]
      ELSE [enabled |-> FALSE, url |-> None, username |-> None, has_password |-> FALSE]

\* set_proxy_config for an authenticated request; loaded and saved tell
\* whether Config::load and config.save() succeed
PutProxyConfig(payload, loaded, saved) ==
    /\ put_count < MaxPuts
    /\ put_count' = put_count + 1
    /\ IF url_missing(payload)
         THEN /\ put_response' = PutResponse(payload, 400, None)
              /\ UNCHANGED <<proxyVars, config_file>>
         ELSE /\ config_file' =
                   IF loaded /\ saved
                     THEN Some([Config_load(config_file) EXCEPT
                                  !.proxy = persisted_proxy(payload)])
                     ELSE config_file
              /\ proxy_config' = new_proxy(payload)
              /\ proxy_version' = fetch_add(proxy_version, 1)
              /\ getRes' = Some(proxy_config')
              /\ lastOp' = "get"
              /\ lastSet' = proxy_config'
              /\ setsStarted' = setsStarted + 1
              /\ put_response' = PutResponse(payload, 200,
                                             Some(ProxyConfigResponse(proxy_config')))
              /\ UNCHANGED <<spc, verRes, overlapped>>
    /\ UNCHANGED <<manager_config, cfg_tasks>>

NextPut ==
    \/ \E payload \in UpdateProxyConfigRequest, loaded \in BOOLEAN, saved \in BOOLEAN :
          PutProxyConfig(payload, loaded, saved) /\ PutOnly

(***************************************************************************)
(* api_key_store.rs : add, update and delete with what they return         *)
(***************************************************************************)
\* the calls are tried with one key for add, and for update with a blank
\* key, a key with a trailing blank and another label
NewKeys == { <<"a">> }
UpdateKeys == { <<" ">>, <<"b", " ">> }
OtherLabels == {"Other"}

InitKeyOps ==
    /\ key_op = None
    /\ deleted_ids = {}

\* no call is made while another subsystem is at work
KeyOpsIdle ==
    /\ key_op = None
    /\ deleted_ids = {}

\* update: .find(|e| e.id == id).ok_or_else(..)? , else Ok(())
update_result(es, id) ==
    IF \E i \in 1..Len(es) : es[i].id = id THEN "Ok" ELSE "Err"

\* delete: Err when retain has removed nothing, else Ok(())
delete_result(es, id) ==
    IF Len(Retain(es, id)) = Len(es) THEN "Err" ELSE "Ok"

KeyOp(op, result) == Some([op |-> op, result |-> result])

\* a call of add, which returns the id it assigned
CallAdd(key, label, ok) ==
    /\ Add(key, label, ok)
    /\ key_op' = KeyOp("add", "Ok")
    /\ UNCHANGED deleted_ids

\* a call of update
CallUpdate(id, key, label, dis, ok) ==
    /\ Update(id, key, label, dis, ok)
    /\ key_op' = KeyOp("update", update_result(entries, id))
    /\ UNCHANGED deleted_ids

\* a call of delete
CallDelete(id, ok) ==
    /\ Delete(id, ok)
    /\ key_op' = KeyOp("delete", delete_result(entries, id))
    /\ deleted_ids' = IF delete_result(entries, id) = "Ok"
                      THEN deleted_ids \cup {id} ELSE deleted_ids

\* the arguments of update: nothing given, each field given alone (the key
\* blank or new), and all three given (the key blank or new)
UpdateArgs ==
    { <<None, None, None>> }
    \cup { <<Some(k), None, None>> : k \in UpdateKeys }
    \cup { <<None, Some(l), None>> : l \in OtherLabels }
    \cup { <<None, None, Some(TRUE)>> }
    \cup { <<Some(k), Some(l), Some(TRUE)>> : k \in UpdateKeys, l \in OtherLabels }

\* the writes of save() succeed here; a write that fails is the subject of
\* the claims about api_keys.json
NextKeyOps ==
    \/ \E k \in NewKeys, l \in Labels : CallAdd(k, l, TRUE) /\ KeyOpsOnly
    \/ \E id \in 1..MaxNextId, a \in UpdateArgs :
          CallUpdate(id, a[1], a[2], a[3], TRUE) /\ KeyOpsOnly
    \/ \E id \in 1..MaxNextId : CallDelete(id, TRUE) /\ KeyOpsOnly

\* the key store while another subsystem is at work
KeysIdle ==
    /\ entries = << >>
    /\ next_id = 1
    /\ keysPath = FALSE
    /\ keysFile = None
    /\ legacy_api_key = None
    /\ authResp = None

\* the state after start-up when the ledger is the subsystem at work
StartLedger ==
    /\ InitLedger
    /\ KeysIdle
    /\ SyncIdle
    /\ ProxyIdle
    /\ RetryIdle
    /\ SioIdle
    /\ AdminIdle
    /\ ViewsIdle
    /\ UsageIdle
    /\ SeriesIdle
    /\ PoolIdle
    /\ RefreshIdle
    /\ SseIdle
    /\ VersionIdle
    /\ ConfigIdle
    /\ EnabledIdle
    /\ BeatsIdle
    /\ PutIdle
    /\ KeyOpsIdle

\* the state after start-up when the key store is the subsystem at work
StartKeys ==
    /\ InitKeys
    /\ LedgerIdle
    /\ SyncIdle
    /\ ProxyIdle
    /\ RetryIdle
    /\ SioIdle
    /\ AdminIdle
    /\ ViewsIdle
    /\ UsageIdle
    /\ SeriesIdle
    /\ PoolIdle
    /\ RefreshIdle
    /\ SseIdle
    /\ VersionIdle
    /\ ConfigIdle
    /\ EnabledIdle
    /\ BeatsIdle
    /\ PutIdle
    /\ KeyOpsIdle

\* the state after start-up when the sync is the subsystem at work
StartSync ==
    /\ InitSync
    /\ KeysIdle
    /\ LedgerIdle
    /\ ProxyIdle
    /\ RetryIdle
    /\ SioIdle
    /\ AdminIdle
    /\ ViewsIdle
    /\ UsageIdle
    /\ SeriesIdle
    /\ PoolIdle
    /\ RefreshIdle
    /\ SseIdle
    /\ VersionIdle
    /\ ConfigIdle
    /\ EnabledIdle
    /\ BeatsIdle
    /\ PutIdle
    /\ KeyOpsIdle

\* the state after start-up when the shared proxy is the subsystem at work
StartProxy ==
    /\ InitProxy
    /\ KeysIdle
    /\ LedgerIdle
    /\ SyncIdle
    /\ RetryIdle
    /\ SioIdle
    /\ AdminIdle
    /\ ViewsIdle
    /\ UsageIdle
    /\ SeriesIdle
    /\ PoolIdle
    /\ RefreshIdle
    /\ SseIdle
    /\ VersionIdle
    /\ ConfigIdle
    /\ EnabledIdle
    /\ BeatsIdle
    /\ PutIdle
    /\ KeyOpsIdle

SpecProxy == StartProxy /\ [][NextProxy]_vars

\* the state when a sync-client operation is called
StartRetry ==
    /\ InitRetry
    /\ KeysIdle
    /\ LedgerIdle
    /\ SyncIdle
    /\ ProxyIdle
    /\ SioIdle
    /\ AdminIdle
    /\ ViewsIdle
    /\ UsageIdle
    /\ SeriesIdle
    /\ PoolIdle
    /\ RefreshIdle
    /\ SseIdle
    /\ VersionIdle
    /\ ConfigIdle
    /\ EnabledIdle
    /\ BeatsIdle
    /\ PutIdle
    /\ KeyOpsIdle

SpecRetry == StartRetry /\ [][NextRetry]_vars

\* every request has the 30 s timeout of the HTTP client and every sleep ends
FairRetry == StartRetry /\ [][NextRetry]_vars /\ WF_vars(NextRetry)

\* the state when connect_and_register_with_retry has spawned its task
StartSio ==
    /\ InitSio
    /\ KeysIdle
    /\ LedgerIdle
    /\ SyncIdle
    /\ ProxyIdle
    /\ RetryIdle
    /\ AdminIdle
    /\ ViewsIdle
    /\ UsageIdle
    /\ SeriesIdle
    /\ PoolIdle
    /\ RefreshIdle
    /\ SseIdle
    /\ VersionIdle
    /\ ConfigIdle
    /\ EnabledIdle
    /\ BeatsIdle
    /\ PutIdle
    /\ KeyOpsIdle

SpecSio == StartSio /\ [][NextSio]_vars

\* the state when the server starts to listen
StartAdmin ==
    /\ InitAdmin
    /\ KeysIdle
    /\ LedgerIdle
    /\ SyncIdle
    /\ ProxyIdle
    /\ RetryIdle
    /\ SioIdle
    /\ ViewsIdle
    /\ UsageIdle
    /\ SeriesIdle
    /\ PoolIdle
    /\ RefreshIdle
    /\ SseIdle
    /\ VersionIdle
    /\ ConfigIdle
    /\ EnabledIdle
    /\ BeatsIdle
    /\ PutIdle
    /\ KeyOpsIdle

SpecAdmin == StartAdmin /\ [][NextAdmin]_vars

\* two stores that list and get are applied to
StartViews ==
    /\ InitViews
    /\ KeysIdle
    /\ LedgerIdle
    /\ SyncIdle
    /\ ProxyIdle
    /\ RetryIdle
    /\ SioIdle
    /\ AdminIdle
    /\ UsageIdle
    /\ SeriesIdle
    /\ PoolIdle
    /\ RefreshIdle
    /\ SseIdle
    /\ VersionIdle
    /\ ConfigIdle
    /\ EnabledIdle
    /\ BeatsIdle
    /\ PutIdle
    /\ KeyOpsIdle

SpecViews == StartViews /\ [][NextViews]_vars

\* a key store and an empty ledger that usage requests read
StartUsage ==
    /\ InitUsage
    /\ LedgerIdle
    /\ SyncIdle
    /\ ProxyIdle
    /\ RetryIdle
    /\ SioIdle
    /\ AdminIdle
    /\ ViewsIdle
    /\ SeriesIdle
    /\ PoolIdle
    /\ RefreshIdle
    /\ SseIdle
    /\ VersionIdle
    /\ ConfigIdle
    /\ EnabledIdle
    /\ BeatsIdle
    /\ PutIdle
    /\ KeyOpsIdle

SpecUsage == StartUsage /\ [][NextUsage]_vars

\* a buffer of records that the time series is computed from
StartSeries ==
    /\ InitSeries
    /\ KeysIdle
    /\ LedgerIdle
    /\ SyncIdle
    /\ ProxyIdle
    /\ RetryIdle
    /\ SioIdle
    /\ AdminIdle
    /\ ViewsIdle
    /\ UsageIdle
    /\ PoolIdle
    /\ RefreshIdle
    /\ SseIdle
    /\ VersionIdle
    /\ ConfigIdle
    /\ EnabledIdle
    /\ BeatsIdle
    /\ PutIdle
    /\ KeyOpsIdle

SpecSeries == StartSeries /\ [][NextSeries]_vars

\* the pool as main hands it over, sorted
StartPool ==
    /\ InitPool
    /\ KeysIdle
    /\ LedgerIdle
    /\ SyncIdle
    /\ ProxyIdle
    /\ RetryIdle
    /\ SioIdle
    /\ AdminIdle
    /\ ViewsIdle
    /\ UsageIdle
    /\ SeriesIdle
    /\ RefreshIdle
    /\ SseIdle
    /\ VersionIdle
    /\ ConfigIdle
    /\ EnabledIdle
    /\ BeatsIdle
    /\ PutIdle
    /\ KeyOpsIdle

SpecPool == StartPool /\ [][NextPool]_vars

\* every credential's token is stale and no caller has asked yet
StartRefresh ==
    /\ InitRefresh
    /\ KeysIdle
    /\ LedgerIdle
    /\ SyncIdle
    /\ ProxyIdle
    /\ RetryIdle
    /\ SioIdle
    /\ AdminIdle
    /\ ViewsIdle
    /\ UsageIdle
    /\ SeriesIdle
    /\ PoolIdle
    /\ SseIdle
    /\ VersionIdle
    /\ ConfigIdle
    /\ EnabledIdle
    /\ BeatsIdle
    /\ PutIdle
    /\ KeyOpsIdle

SpecRefresh == StartRefresh /\ [][NextRefresh]_vars

\* a streamed response has begun with message_start
StartSse ==
    /\ InitSse
    /\ KeysIdle
    /\ LedgerIdle
    /\ SyncIdle
    /\ ProxyIdle
    /\ RetryIdle
    /\ SioIdle
    /\ AdminIdle
    /\ ViewsIdle
    /\ UsageIdle
    /\ SeriesIdle
    /\ PoolIdle
    /\ RefreshIdle
    /\ VersionIdle
    /\ ConfigIdle
    /\ EnabledIdle
    /\ BeatsIdle
    /\ PutIdle
    /\ KeyOpsIdle

SpecSse == StartSse /\ [][NextSse]_vars

\* the periodic task is about to pull and no sync_now is running
StartVersion ==
    /\ InitVersion
    /\ KeysIdle
    /\ LedgerIdle
    /\ SyncIdle
    /\ ProxyIdle
    /\ RetryIdle
    /\ SioIdle
    /\ AdminIdle
    /\ ViewsIdle
    /\ UsageIdle
    /\ SeriesIdle
    /\ PoolIdle
    /\ RefreshIdle
    /\ SseIdle
    /\ ConfigIdle
    /\ EnabledIdle
    /\ BeatsIdle
    /\ PutIdle
    /\ KeyOpsIdle

SpecVersion == StartVersion /\ [][NextVersion]_vars

\* config.json as start-up left it, and the three writers about to run
StartConfig ==
    /\ InitConfig
    /\ KeysIdle
    /\ LedgerIdle
    /\ SyncIdle
    /\ ProxyIdle
    /\ RetryIdle
    /\ SioIdle
    /\ AdminIdle
    /\ ViewsIdle
    /\ UsageIdle
    /\ SeriesIdle
    /\ PoolIdle
    /\ RefreshIdle
    /\ SseIdle
    /\ VersionIdle
    /\ EnabledIdle
    /\ BeatsIdle
    /\ PutIdle
    /\ KeyOpsIdle

SpecConfig == StartConfig /\ [][NextConfig]_vars

\* start-up with sync enabled or not, before main has called start()
StartEnabled ==
    /\ InitEnabled
    /\ KeysIdle
    /\ LedgerIdle
    /\ InitSync
    /\ ProxyIdle
    /\ RetryIdle
    /\ SioIdle
    /\ AdminIdle
    /\ ViewsIdle
    /\ UsageIdle
    /\ SeriesIdle
    /\ PoolIdle
    /\ RefreshIdle
    /\ SseIdle
    /\ VersionIdle
    /\ ConfigIdle
    /\ BeatsIdle
    /\ PutIdle
    /\ KeyOpsIdle

SpecEnabled == StartEnabled /\ [][NextEnabled]_vars

\* start-up, before the one connection of this specification is made
StartBeats ==
    /\ InitBeats
    /\ KeysIdle
    /\ LedgerIdle
    /\ InitSync
    /\ ProxyIdle
    /\ RetryIdle
    /\ SioIdle
    /\ AdminIdle
    /\ ViewsIdle
    /\ UsageIdle
    /\ SeriesIdle
    /\ PoolIdle
    /\ RefreshIdle
    /\ SseIdle
    /\ VersionIdle
    /\ ConfigIdle
    /\ EnabledIdle
    /\ PutIdle
    /\ KeyOpsIdle

SpecBeats == StartBeats /\ [][NextBeats]_vars

\* the SharedProxy as main built it, config.json not yet written
StartPut ==
    /\ InitPut
    /\ KeysIdle
    /\ LedgerIdle
    /\ SyncIdle
    /\ RetryIdle
    /\ SioIdle
    /\ AdminIdle
    /\ ViewsIdle
    /\ UsageIdle
    /\ SeriesIdle
    /\ PoolIdle
    /\ RefreshIdle
    /\ SseIdle
    /\ VersionIdle
    /\ ConfigIdle
    /\ EnabledIdle
    /\ BeatsIdle
    /\ KeyOpsIdle

SpecPut == StartPut /\ [][NextPut]_vars

\* a store that is empty or was migrated from the legacy key, before any call
StartKeyOps ==
    /\ InitKeyOps
    /\ InitKeys
    /\ LedgerIdle
    /\ SyncIdle
    /\ ProxyIdle
    /\ RetryIdle
    /\ SioIdle
    /\ AdminIdle
    /\ ViewsIdle
    /\ UsageIdle
    /\ SeriesIdle
    /\ PoolIdle
    /\ RefreshIdle
    /\ SseIdle
    /\ VersionIdle
    /\ ConfigIdle
    /\ EnabledIdle
    /\ BeatsIdle
    /\ PutIdle

SpecKeyOps == StartKeyOps /\ [][NextKeyOps]_vars

SpecLedger == StartLedger /\ [][NextLedger]_vars

SpecLedgerSeq == StartLedger /\ [][NextLedgerSeq]_vars

SpecKeys == StartKeys /\ [][NextKeys]_vars

SpecSync == StartSync /\ [][NextSync]_vars

\* the periodic task and the heartbeat tasks are tokio tasks that keep being
\* scheduled; nothing is assumed about the server
FairSync ==
    /\ StartSync
    /\ [][NextChannel]_vars
    /\ WF_vars(PeriodicTask /\ SyncOnly)
    /\ WF_vars(HeartbeatTasks /\ SyncOnly)

(***************************************************************************)
(* Claims about the control-plane sync                                     *)
(***************************************************************************)
PullsInFlight ==
    (IF ppc = "pulling" THEN 1 ELSE 0) + (IF apc = "pulling" THEN 1 ELSE 0)
      + (IF cpc = "syncing" THEN 1 ELSE 0)

PushesInFlight == IF ppc = "pushing" THEN 1 ELSE 0

\* C2: at no time are two get_changes or two push_changes of the SyncManager
\* in flight (periodic task, admin sync_now and device-command sync_now
\* counted together), and the push of a cycle starts after its pull completed.
C2_NoConcurrentPullOrPush ==
    /\ PullsInFlight <= 1
    /\ PushesInFlight <= 1
    /\ ppc = "pushing" => cyclePulled

\* C3: whenever a connection attempt has failed with an I/O error, or the
\* channel state is Disconnected or Error, a new connect_and_register attempt
\* is eventually started.
C3_ReconnectEventuallyAttempted ==
    (ioFailed \/ ws_state \in {"Disconnected", "Error"}) ~> (ppc = "connect")

\* C4: for a payload that parses as a DeviceCommand nothing is emitted while
\* the handler runs, and when it has finished exactly one credential:response
\* was emitted, with the command's command_id, success equal to the result of
\* the pool operation whatever sync_now returned, and error present exactly
\* when success is false.
C4_OneResponseMatchingPoolResult ==
    (IsSome(cmd) /\ Unwrap(cmd).kind # "unparsable") =>
        IF cpc = "idle"
          THEN /\ Len(responses) = 1
               /\ responses[1].command_id = Unwrap(cmd).command_id
               /\ responses[1].success = Unwrap(poolRes).ok
               /\ IsSome(responses[1].error) <=> ~responses[1].success
          ELSE responses = << >>

\* a successful command whose follow-up sync failed has been answered
C4_Witness ==
    /\ cpc = "idle"
    /\ IsSome(cmd) /\ Unwrap(cmd).kind # "unparsable"
    /\ IsSome(poolRes) /\ Unwrap(poolRes).ok
    /\ syncRes = Some(FALSE)
    /\ Len(responses) = 1 /\ responses[1].success

\* C5: when the periodic interval fires for the first time after a device
\* command succeeded and its handler finished, a push_changes carrying the
\* credential set the command left behind has been issued.
C5_PushBeforeNextTick ==
    [][(/\ cpc = "idle"
        /\ IsSome(poolRes) /\ Unwrap(poolRes).ok
        /\ ~tickedSinceCmd /\ tickedSinceCmd')
          => PoolIds(pool) \in cmdPushes]_vars

\* C6: once a periodic cycle has pulled successfully and last_sync_version is
\* set, the local credential set reflects the pulled changes: no deleted id is
\* present and every updated id is.
C6_PulledChangesApplied ==
    IsSome(cycleEnv) =>
        /\ Unwrap(cycleEnv).deleted \cap PoolIds(pool) = {}
        /\ Unwrap(cycleEnv).updated \subseteq PoolIds(pool)

\* C16: when connect_and_register stops waiting for the registration answer
\* the channel is Registered or Error: a wait that ran out without an answer
\* does not leave the channel in state Connected.
C16_WaitEndsRegisteredOrError ==
    [][(ppc = "wait" /\ ppc' # "wait") => ws_state' \in {"Registered", "Error"}]_vars

(***************************************************************************)
(* Claims about the token-usage ledger                                     *)
(***************************************************************************)
\* the statistics a start would load from the snapshot file
Persisted == IF IsSome(usageFile) THEN FromJson(Unwrap(usageFile)) ELSE StatsDefault

\* C7: when the tracker is dropped with a file path configured and no write
\* having failed, the persisted snapshot equals the in-memory statistics
\* (every record call that completed before the drop is in the file).
C7_DropPersistsEverything ==
    (~alive /\ usagePath /\ ~writeFailed) => Persisted = stats

\* C8: a snapshot write made by record happens only when no successful save
\* happened in the previous SAVE_DEBOUNCE_SECS seconds.
C8_RecordWritesDebounced ==
    IsSome(recWriteGap) => Unwrap(recWriteGap) >= SAVE_DEBOUNCE_SECS

ForKey(q, id) == SelectSeq(q, LAMBDA r : r.api_key_id = Some(id))

RECURSIVE SumInput(_)
SumInput(q) == IF q = << >> THEN 0 ELSE Head(q).input_tokens + SumInput(Tail(q))

RECURSIVE SumOutput(_)
SumOutput(q) == IF q = << >> THEN 0 ELSE Head(q).output_tokens + SumOutput(Tail(q))

\* C9 as stated: get_stats_for_api_key(id) reports totals equal to the sums
\* over the record calls made with api_key_id = id since the last reset or
\* since load.
C9_TotalsEqualSumsSinceLoad ==
    \A id \in KeyIds :
      LET r == get_stats_for_api_key(stats, id)
          mine == ForKey(arrivals, id)
      IN /\ r.total_input_tokens = SumInput(mine)
         /\ r.total_output_tokens = SumOutput(mine)
         /\ r.total_requests = Len(mine)

\* C9 amended: the totals equal the by-api-key totals loaded from the
\* snapshot at construction (zero when nothing was loaded, and zero after a
\* reset) plus the sums over the record calls made with api_key_id = id
\* since then, evicted records included.
C9_TotalsEqualLoadedPlusSums ==
    \A id \in KeyIds :
      LET r == get_stats_for_api_key(stats, id)
          b == get_stats_for_api_key(baseStats, id)
          mine == ForKey(arrivals, id)
      IN /\ r.total_input_tokens = b.total_input_tokens + SumInput(mine)
         /\ r.total_output_tokens = b.total_output_tokens + SumOutput(mine)
         /\ r.total_requests = b.total_requests + Len(mine)

\* totals loaded from a snapshot, a record made since, and a record of the
\* key already evicted from the buffer
C9_Witness ==
    \E id \in KeyIds :
      /\ get_stats_for_api_key(baseStats, id).total_requests > 0
      /\ ForKey(arrivals, id) # << >>
      /\ get_stats_for_api_key(stats, id).total_requests
           > Len(get_stats_for_api_key(stats, id).recent_requests)

LastN(q, n) == SubSeq(q, Len(q) - (IF n < Len(q) THEN n ELSE Len(q)) + 1, Len(q))

\* C10: the recent-requests buffer holds at most MAX_RECENT_REQUESTS records,
\* and they are the most recently recorded ones (those loaded at construction
\* first, then the calls since) in arrival order.
C10_RecentIsBoundedSuffix ==
    /\ Len(stats.recent_requests) <= MAX_RECENT_REQUESTS
    /\ stats.recent_requests
         = LastN(baseStats.recent_requests \o arrivals, MAX_RECENT_REQUESTS)

\* the oldest record has been evicted from a full buffer
C10_Witness ==
    /\ Len(baseStats.recent_requests \o arrivals) > MAX_RECENT_REQUESTS
    /\ Len(stats.recent_requests) = MAX_RECENT_REQUESTS
    /\ Head(stats.recent_requests) # Head(baseStats.recent_requests \o arrivals)

NoRecentSave ==
    ~IsSome(last_save) \/ now - Unwrap(last_save) >= SAVE_DEBOUNCE_SECS

C12_ResetZeroesAndFlushes ==
    top[1] = "reset" =>
        /\ stats = StatsDefault
        /\ tpc[1] # "check"
        /\ tpc[1] \in {"stamp", "clear"} => usageFile = Some(ToJson(StatsDefault))

\* reset has written the empty snapshot although the last save was recent
C12_Witness ==
    /\ top[1] = "reset" /\ tpc[1] = "stamp"
    /\ IsSome(last_save) /\ now - Unwrap(last_save) < SAVE_DEBOUNCE_SECS
    /\ usageFile = Some(ToJson(StatsDefault))

(***************************************************************************)
(* Claims about the shared proxy handle                                    *)
(***************************************************************************)
ProxyQuiet == \A t \in ProxyCallers : spc[t] = "idle"

\* C13: the version equals the number of set calls made less those still
\* under way, so once none is under way it equals the number of set calls;
\* get returns the argument of the latest set; the version never
\* decreases and a set raises it by exactly one; get and version change
\* neither the value nor the version.
C13_SetGetVersion ==
    /\ [](proxy_version = setsStarted - Cardinality({t \in ProxyCallers : spc[t] = "bump"}))
    /\ [](ProxyQuiet => proxy_version = setsStarted)
    /\ [](lastOp = "get" => getRes = Some(lastSet))
    /\ [][proxy_version' >= proxy_version]_vars
    /\ [][\A t \in ProxyCallers :
            (spc[t] = "bump" /\ spc'[t] = "idle") => proxy_version' = proxy_version + 1]_vars
    /\ [][lastOp' \in {"get", "version"} =>
            UNCHANGED <<proxy_config, proxy_version>>]_vars

\* two sets overlapped, both have completed, and a get has returned the
\* value of the later write
C13_Witness ==
    /\ ProxyQuiet /\ overlapped
    /\ proxy_version = 2
    /\ lastOp = "get" /\ getRes = Some(lastSet)

(***************************************************************************)
(* Claims about the sync client                                            *)
(***************************************************************************)
Failures(seq) == \A i \in 1..Len(seq) : seq[i] # "ok"

\* C14: with the default RetryConfig the call terminates; the operation is
\* attempted at most 4 times, the sleeps before the retries are 1000, 2000
\* and 4000 ms, the first Ok is returned at once, and after the 4th failure
\* the error of that attempt is returned.
C14_DefaultRetryTerminates ==
    /\ [](retry_config = RetryConfigDefault =>
            /\ Len(tried) <= 4
            /\ Len(slept) <= 3
            /\ slept = SubSeq(<<1000, 2000, 4000>>, 1, Len(slept))
            /\ Len(slept) = (IF rpc = "done" THEN Len(tried) - 1 ELSE Len(tried))
            /\ Failures(SubSeq(tried, 1, Len(tried) - 1))
            /\ (rpc # "done" => Failures(tried))
            /\ (rpc = "done" =>
                  /\ IsSome(returned)
                  /\ Unwrap(returned).outcome = tried[Len(tried)]
                  /\ Unwrap(returned).ok = (tried[Len(tried)] = "ok")
                  /\ (~Unwrap(returned).ok => Len(tried) = 4)))
    /\ [][rpc = "done" => UNCHANGED <<tried, slept, returned>>]_vars
    /\ <>(rpc = "done")

\* the default configuration has failed four times, with all three sleeps
C14_Witness ==
    /\ retry_config = RetryConfigDefault
    /\ rpc = "done"
    /\ Len(tried) = 4
    /\ slept = <<1000, 2000, 4000>>
    /\ returned = Some([ok |-> FALSE, outcome |-> tried[4]])

\* C15: an attempt that received an HTTP 4xx response is the last one of
\* its call: the call is over and no attempt follows it.
C15_ClientErrorNotRetried ==
    \A i \in 1..Len(tried) :
        tried[i] = "http4xx" => (i = 1 /\ Len(tried) = 1 /\ rpc = "done")

(***************************************************************************)
(* Claims about the Socket.IO client                                       *)
(***************************************************************************)
\* C17: with a notifier, it has been signalled once exactly when a device
\* registration has succeeded, whatever failed before, and the signal is
\* sent by the step that handles the first device:registered; without a
\* notifier nothing is signalled.
C17_NotifiedOnceAtFirstRegistration ==
    /\ [](notified = (IF registration_notifier /\ registrations >= 1 THEN 1 ELSE 0))
    /\ [][notified' # notified => (registrations = 0 /\ registrations' = 1)]_vars

\* a second registration after a reconnect, the first one after a failed
\* attempt, one signal
C17_Witness ==
    /\ registration_notifier
    /\ failedFirst
    /\ registrations = 2
    /\ notified = 1

\* C18: the sleep after the n-th failed attempt in a row lasts
\* min(2^(n-1), 30) s, no sleep is longer than 30 s, and the sleep after a
\* connection that reached the service loop lasts 1 s.
C18_BackoffSchedule ==
    sio_pc = "sleep" =>
        /\ retry_delay <= 30
        /\ (failStreak >= 1 => retry_delay = min(pow(2, failStreak - 1), 30))
        /\ (sio_event \in {"close", "read_error", "heartbeat_failed", "pong_failed"}
              => retry_delay = 1)

\* C19: an attempt starts by writing Connecting, Connected is written only
\* over Connecting and Registered only over Connected; heartbeats, pongs and
\* command dispatches happen only in state Registered; the service loop runs
\* in state Registered and is left with Disconnected or Error written.
C19_LifecycleOrder ==
    /\ [](sio_pc = "connect" => sio_state = "Connecting")
    /\ [](sio_pc = "service" => sio_state = "Registered")
    /\ [][(sio_state' = "Connected" /\ sio_state # "Connected")
            => sio_state = "Connecting"]_vars
    /\ [][(sio_state' = "Registered" /\ sio_state # "Registered")
            => sio_state = "Connected"]_vars
    /\ [][sio_event' \in {"heartbeat", "pong", "command"} => sio_state = "Registered"]_vars
    /\ [][(sio_pc = "service" /\ sio_pc' # "service")
            => sio_state' \in {"Disconnected", "Error"}]_vars

\* a registered connection has sent a heartbeat and was then closed
C19_Witness ==
    /\ sio_pc = "sleep"
    /\ sio_event = "close"
    /\ sio_state = "Disconnected"
    /\ registrations >= 1

(***************************************************************************)
(* Claims about the admin API                                              *)
(***************************************************************************)
\* the state an admin handler can reach
AdminReach == <<keyVars, ledgerVars, syncVars, proxyVars, sync_config>>

KeyMissingOrWrong(request) ==
    \/ ~IsSome(extract_api_key(request))
    \/ Unwrap(extract_api_key(request)) # Unwrap(admin_api_key)

\* C20: with the admin routes mounted, a request without key or with a key
\* that differs from the configured one is answered 401 and leaves
\* credentials, API keys, shared proxy and version, ledger and sync
\* configuration as they are; with an absent or blank admin key no admin
\* route exists: every request is answered 404 and changes nothing.
C20_AdminNeedsTheKey ==
    /\ [](IsSome(adm_request) =>
            IF admin_key_valid(admin_api_key)
              THEN (KeyMissingOrWrong(Unwrap(adm_request)) => adm_status = 401)
              ELSE adm_status = 404)
    /\ [][(adm_count' # adm_count /\ adm_status' \in {401, 404})
            => UNCHANGED AdminReach]_vars
    /\ [][~admin_key_valid(admin_api_key) => UNCHANGED AdminReach]_vars

\* a mutating request with a wrong key was refused after an authorised one
\* had changed the proxy
C20_Witness ==
    /\ admin_key_valid(admin_api_key)
    /\ proxy_version = 1
    /\ IsSome(adm_request)
    /\ Unwrap(adm_request).route = "PUT /config/proxy"
    /\ Unwrap(adm_request).key = Some([header |-> "authorization", value |-> <<"x">>])
    /\ adm_status = 401

(***************************************************************************)
(* Claims about the views of the API-key store                             *)
(***************************************************************************)
\* C21: list() and get(id) give the same result on two stores that differ
\* only in the hidden characters of their keys.
C21_ViewsHideKey ==
    IsSome(view_res) => Unwrap(view_res).a = Unwrap(view_res).b

(***************************************************************************)
(* Claims about GET /api/user/usage                                        *)
(***************************************************************************)
\* the key a request presents: the x-api-key value, else the Bearer token
Presented(headers) ==
    IF IsSome(headers.x_api_key) THEN headers.x_api_key
    ELSE IF IsSome(headers.authorization)
              /\ Len(Unwrap(headers.authorization)) >= 7
              /\ SubSeq(Unwrap(headers.authorization), 1, 7) = Bearer
         THEN Some(SubSeq(Unwrap(headers.authorization), 8,
                          Len(Unwrap(headers.authorization))))
         ELSE None

\* the entries a presented key may be authenticated as
EnabledMatches(headers) ==
    { i \in 1..Len(entries) :
        /\ IsSome(Presented(headers))
        /\ ~entries[i].disabled
        /\ entries[i].key = Unwrap(Presented(headers)) }

\* the response a request must get from the store and the ledger as they are
UsageAnswerOk(r) ==
    IF EnabledMatches(r.headers) = {}
    THEN r.status = 401 /\ r.body = None
    ELSE LET id == entries[CHOOSE i \in EnabledMatches(r.headers) :
                             \A j \in EnabledMatches(r.headers) : i <= j].id
             mine == ForKey(arrivals, id)
         IN /\ r.status = 200
            /\ IsSome(r.body)
            /\ Unwrap(r.body).recent_requests
                 = ForKey(LastN(arrivals, MAX_RECENT_REQUESTS), id)
            /\ Unwrap(r.body).total_input_tokens = SumInput(mine)
            /\ Unwrap(r.body).total_output_tokens = SumOutput(mine)
            /\ Unwrap(r.body).total_requests = Len(mine)

\* C22: GET /usage authenticated with key k answers 200 with exactly the
\* buffered records of k.id and k's accumulated totals, whatever was recorded
\* under other keys or under none; a missing, unknown or disabled key gets 401
\* and no statistics.
C22_UsageIsTheKeysOwn ==
    [][usage_response' # usage_response => UsageAnswerOk(Unwrap(usage_response'))]_vars

\* a key's usage was answered while the buffer held a record of another key
\* and one made without a key, and a record of the key had been evicted
C22_Witness ==
    /\ IsSome(usage_response)
    /\ Unwrap(usage_response).status = 200
    /\ IsSome(Unwrap(usage_response).body)
    /\ Unwrap(Unwrap(usage_response).body).total_requests
         > Len(Unwrap(Unwrap(usage_response).body).recent_requests)
    /\ \E i \in 1..Len(stats.recent_requests) :
         stats.recent_requests[i].api_key_id = None
    /\ \E i \in 1..Len(stats.recent_requests) :
         IsSome(stats.recent_requests[i].api_key_id)

(***************************************************************************)
(* Claims about api_keys.json                                              *)
(***************************************************************************)
\* the step is an add, or an update or a delete that returns Ok
SuccessfulMutation ==
    \/ \E k \in Strs, l \in Labels, ok \in BOOLEAN : Add(k, l, ok)
    \/ \E id \in 1..(MaxNextId - 1), k \in OptOf(Strs), l \in OptOf(Labels),
          d \in OptOf(BOOLEAN), ok \in BOOLEAN :
          IndexOf(entries, id) # 0 /\ Update(id, k, l, d, ok)
    \/ \E id \in 1..(MaxNextId - 1), ok \in BOOLEAN :
          IndexOf(entries, id) # 0 /\ Delete(id, ok)

\* C23: after every add, update or delete that reports success on a store
\* with a file path, api_keys.json holds the in-memory entries and next_id.
C23_FileEqualsMemoryAfterMutation ==
    [][(keysPath /\ SuccessfulMutation)
         => keysFile' = Some([next_id |-> next_id', entries |-> entries'])]_vars

(***************************************************************************)
(* Claims about the time series                                            *)
(***************************************************************************)
\* the UTC minute at which the bucket of an instant starts; a week starts on
\* the Monday on or before the date
BucketStart(granularity, dt) ==
    CASE granularity = "hour" -> dt - (dt % 60)
      [] granularity = "day" -> dt - (dt % 1440)
      [] granularity = "week" ->
           CHOOSE m \in { (dt \div 1440 - back) * 1440 : back \in 0..6 } :
             (m \div 1440) % 7 = 20087 % 7

\* the positions of the buffered records that can be read and fall into a bucket
InBucket(granularity, start) ==
    { i \in 1..Len(series_records) :
        /\ series_records[i].timestamp.valid
        /\ BucketStart(granularity,
                       Unwrap(parse_from_rfc3339(series_records[i].timestamp))) = start }

RECURSIVE SumTokens(_, _)
SumTokens(I, field) ==
    IF I = {} THEN 0
    ELSE LET i == CHOOSE x \in I : TRUE
         IN series_records[i][field] + SumTokens(I \ {i}, field)

\* the bucket starts of the readable records
BucketStarts(granularity) ==
    { BucketStart(granularity, Unwrap(parse_from_rfc3339(series_records[i].timestamp))) :
        i \in { j \in 1..Len(series_records) : series_records[j].timestamp.valid } }

\* C24: the data are the buckets of the readable records, each record counted
\* in the one bucket of its hour, its UTC date or its week's Monday, the newest
\* bucket first, cut to 48 (hour), 30 (day) or 12 (week) buckets.
C24_TimeseriesBuckets ==
    IsSome(series_res) =>
      LET g == Unwrap(series_res).granularity
          data == Unwrap(series_res).data
          starts == BucketStarts(g)
          newer(b) == Cardinality({ x \in starts : x > b })
      IN /\ Len(data) = min(Cardinality(starts), limit(g))
         /\ Len(data) <= (IF g = "hour" THEN 48 ELSE IF g = "day" THEN 30 ELSE 12)
         /\ \A b \in starts :
              newer(b) < Len(data) =>
                data[newer(b) + 1] =
                  [time_key |-> format(b, (b \div 60) % 24),
                   input_tokens |-> SumTokens(InBucket(g, b), "input_tokens"),
                   output_tokens |-> SumTokens(InBucket(g, b), "output_tokens"),
                   requests |-> Cardinality(InBucket(g, b))]

\* weeks were asked for, more than twelve of them were buffered, and a record
\* made on a Sunday was counted under the Monday six days before
C24_Witness ==
    /\ IsSome(series_res)
    /\ Unwrap(series_res).granularity = "week"
    /\ Cardinality(BucketStarts("week")) > 12
    /\ Len(Unwrap(series_res).data) = 12
    /\ \E i \in 1..Len(series_records) :
         /\ series_records[i].timestamp.valid
         /\ LET dt == Unwrap(parse_from_rfc3339(series_records[i].timestamp)) IN
              /\ (dt \div 1440) % 7 = 20086 % 7
              /\ BucketStart("week", dt) = (dt \div 1440 - 6) * 1440
              /\ \E j \in 1..12 :
                   Unwrap(series_res).data[j].time_key = format(dt - 6 * 1440, 0)

(***************************************************************************)
(* Claims about the credential pool                                        *)
(***************************************************************************)
PoolIdsOf(creds) == { creds[i].id : i \in 1..Len(creds) }

\* C25: after set_primary(id) on an existing credential, id is at priority 0,
\* every other credential that was at priority 0 is at priority 1 or more (so
\* id alone is at priority 0), and every other credential that was not at
\* priority 0 keeps its priority.
C25_SetPrimaryIsUnique ==
    [][\A id \in 1..MaxPoolId :
         pool_op' = PoolOp("set_primary", id, TRUE) =>
           /\ PoolIdsOf(cred_pool') = PoolIdsOf(cred_pool)
           /\ PriorityOf(cred_pool', id) = 0
           /\ \A other \in PoolIdsOf(cred_pool) \ {id} :
                /\ PriorityOf(cred_pool, other) = 0 => PriorityOf(cred_pool', other) >= 1
                /\ PriorityOf(cred_pool, other) # 0 =>
                     PriorityOf(cred_pool', other) = PriorityOf(cred_pool, other)
           /\ { i \in PoolIdsOf(cred_pool') : PriorityOf(cred_pool', i) = 0 } = {id}]_vars

\* set_primary has demoted a credential to priority 1 next to one that was
\* there before, with a third credential at priority 0 now
C25_Witness ==
    /\ pool_op.kind = "set_primary" /\ pool_op.ok
    /\ Len(cred_pool) = 3
    /\ cred_pool[1].id = pool_op.id
    /\ cred_pool[2].priority = 1
    /\ cred_pool[3].priority >= 1

Returned(id) == { c \in Callers : fpc[c] = "done" /\ fcred[c] = id }

BlockEvents(i) == { k \in 1..Len(sse_events) : sse_events[k].index = i }

Opened == { sse_events[k].index : k \in { j \in 1..Len(sse_events) :
                                            sse_events[j].event = "content_block_start" } }

Stops(i) == { k \in BlockEvents(i) : sse_events[k].event = "content_block_stop" }

\* the events of block i: one start first, deltas, stops only at the end, and
\* nothing after an event of block i + 1
BlockInOrder(i) ==
    /\ \A k \in BlockEvents(i) :
         (sse_events[k].event = "content_block_start") = (\A j \in BlockEvents(i) : k <= j)
    /\ \A k \in Stops(i) : \A j \in BlockEvents(i) : j <= k
    /\ \A k \in BlockEvents(i) : \A j \in BlockEvents(i + 1) : k < j

C29_VersionNeverDecreases ==
    [][last_sync_version' >= last_sync_version]_vars

(***************************************************************************)
(* Claims about the heartbeat tasks                                        *)
(***************************************************************************)
\* C30: at most one heartbeat task runs for the device at any time (a
\* reconnect through connect_and_register leaves no heartbeat task of the
\* earlier connection behind).
C30_AtMostOneHeartbeatTask ==
    Cardinality(heartbeats) <= 1

(***************************************************************************)
(* Claims about the reconnect check                                        *)
(***************************************************************************)
\* C31: the periodic task starts a reconnect only when the state of the
\* DeviceClient is Disconnected or Error, whatever get_state_sync met at the
\* state lock.
C31_ReconnectOnlyWhenDown ==
    [][(ppc = "check" /\ ppc' = "reconnect")
          => ws_state \in {"Disconnected", "Error"}]_vars

(***************************************************************************)
(* Claims about config.json                                                *)
(***************************************************************************)
\* C32: once the proxy update, the sync-config save and the token
\* persistence have all written the file, in whatever interleaving, the file
\* holds the new proxy settings, the new sync settings and the auth token.
C32_NoLostConfigUpdate ==
    (\A w \in ConfigWriters : cfg_tasks[w].pc = "done")
       => config_file = Some([proxy |-> NewProxy,
                              sync_config |-> Some(SyncConfig(NewSettings,
                                                              Some(AuthToken)))])

(***************************************************************************)
(* Claims about a reader of the shared proxy handle                        *)
(***************************************************************************)
\* C33: the version is never ahead of the stored value: it never exceeds the
\* number of values written, and a get that follows a version() = v returns the
\* latest value written, which is the v-th or a later one, whatever sets are
\* under way.
C33_VersionNotAhead ==
    /\ [](proxy_version <= setsStarted)
    /\ [][(lastOp' = "get" /\ IsSome(verRes))
            => /\ Unwrap(verRes) <= setsStarted
               /\ getRes' = Some(lastSet)]_vars

\* a reader has read version 1 while a second set had written its value and
\* not yet raised the version, and the get that followed returned that value
C33_Witness ==
    /\ lastOp = "get"
    /\ IsSome(verRes)
    /\ Unwrap(verRes) >= 1
    /\ Unwrap(verRes) < setsStarted
    /\ \E t \in ProxyCallers : spc[t] = "bump"
    /\ getRes = Some(lastSet)

(***************************************************************************)
(* Claims about a disabled sync                                            *)
(***************************************************************************)
\* a get_changes or a push_changes is sent to the server in this step
ServerContacted ==
    \/ ppc # "pulling" /\ ppc' = "pulling"
    \/ ppc # "pushing" /\ ppc' = "pushing"
    \* sync_now
    \/ apc # "pulling" /\ apc' = "pulling"

\* C34: while is_enabled() is false no get_changes and no push_changes is
\* sent, by sync_now, by start or by a periodic task started earlier.
C34_NoContactWhenDisabled ==
    [][ServerContacted => is_enabled]_vars

(***************************************************************************)
(* Claims about the heartbeat task                                         *)
(***************************************************************************)
\* the number of failed emits at the end of the log
RECURSIVE FailRun(_)
FailRun(log) ==
    IF log = << >> \/ log[Len(log)] THEN 0
    ELSE 1 + FailRun(SubSeq(log, 1, Len(log) - 1))

\* a step of the heartbeat task: it emits, or it ends
BeatStep ==
    /\ heartbeats # {}
    /\ ppc' = ppc
    /\ hb_log' # hb_log \/ heartbeats' = {}

\* C35: the heartbeat task counts the emits that failed in a row (a success
\* brings the count back to 0); it sets the state to Error and stops exactly
\* when MAX_FAILURES emits in a row have failed, and it stops without
\* changing the state when it reads a state other than Registered.
C35_HeartbeatStopsAtThreeFailures ==
    /\ [](\A c \in heartbeats : c = FailRun(hb_log) /\ c < MAX_FAILURES)
    /\ [][BeatStep =>
            IF ws_state # "Registered"
              THEN /\ heartbeats' = {}
                   /\ UNCHANGED <<ws_state, hb_log>>
              ELSE /\ Len(hb_log') = Len(hb_log) + 1
                   /\ IF FailRun(hb_log') >= MAX_FAILURES
                        THEN ws_state' = "Error" /\ heartbeats' = {}
                        ELSE UNCHANGED ws_state /\ heartbeats' # {}]_vars

\* the task has stopped with the state Error after a success followed by
\* MAX_FAILURES failures
C35_Witness ==
    /\ heartbeats = {}
    /\ ws_state = "Error"
    /\ Len(hb_log) > MAX_FAILURES
    /\ FailRun(hb_log) = MAX_FAILURES

(***************************************************************************)
(* Claims about PUT /config/proxy                                          *)
(***************************************************************************)
\* the request asks for a proxy without giving its address
NoAddress(request) ==
    request.enabled /\ (request.url = None \/ request.url = Some(""))

\* C36: a PUT /config/proxy with enabled = true and a missing or empty url is
\* answered 400 and leaves the value and the version of the SharedProxy as
\* they were; every other request is answered 200 and sets the SharedProxy
\* once (version + 1): to None when enabled = false, else to the url of the
\* request, with the username and password when both are given; this whether
\* or not config.json could be loaded and written.
C36_PutProxyConfig ==
    [][put_count' # put_count =>
         LET r == Unwrap(put_response') IN
           IF NoAddress(r.request)
             THEN /\ r.status = 400
                  /\ UNCHANGED <<proxy_config, proxy_version>>
             ELSE /\ r.status = 200
                  /\ proxy_version' = proxy_version + 1
                  /\ IsSome(proxy_config') <=> r.request.enabled
                  /\ r.request.enabled =>
                        /\ Some(Unwrap(proxy_config').url) = r.request.url
                        /\ (r.request.username # None /\ r.request.password # None) =>
                              /\ Unwrap(proxy_config').username = r.request.username
                              /\ Unwrap(proxy_config').password = r.request.password]_vars

\* a request without an address was refused after an earlier request had set
\* a proxy while config.json could not be written
C36_Witness ==
    /\ put_count = 2
    /\ Unwrap(put_response).status = 400
    /\ proxy_version = 1
    /\ IsSome(proxy_config)
    /\ config_file = None

(***************************************************************************)
(* Claims about update and delete of the API-key store                     *)
(***************************************************************************)
KnownId(id) == \E i \in 1..Len(entries) : entries[i].id = id

\* what a call update(id, key, label, dis) must have done
UpdateRight(id, key, label, dis) ==
    IF ~KnownId(id)
      THEN /\ update_result(entries, id) = "Err"
           /\ UNCHANGED <<entries, next_id, keysFile>>
      ELSE /\ update_result(entries, id) = "Ok"
           /\ next_id' = next_id
           /\ Len(entries') = Len(entries)
           /\ \A j \in 1..Len(entries) :
                IF entries[j].id # id
                  THEN entries'[j] = entries[j]
                  ELSE /\ entries'[j].id = id
                       /\ entries'[j].label =
                            IF label = None THEN entries[j].label ELSE Unwrap(label)
                       /\ entries'[j].disabled =
                            IF dis = None THEN entries[j].disabled ELSE Unwrap(dis)
                       /\ entries'[j].key =
                            IF key = None \/ Trim(Unwrap(key)) = << >>
                              THEN entries[j].key
                              ELSE Trim(Unwrap(key))

\* what a call delete(id) with an unknown id must have done
DeleteRight(id) ==
    ~KnownId(id) =>
       /\ delete_result(entries, id) = "Err"
       /\ UNCHANGED <<entries, next_id, keysFile>>

\* C37: update and delete with an id that is not in the store return Err and
\* leave entries, next_id and the file as they were; an update that succeeds
\* changes, on the entry with that id and on no other, only the fields given
\* as Some, and a key that is empty after trimming leaves the stored key.
C37_UpdateDeleteById ==
    [][/\ \A id \in 1..MaxNextId, a \in UpdateArgs :
             (/\ key_op' = KeyOp("update", update_result(entries, id))
              /\ CallUpdate(id, a[1], a[2], a[3], TRUE))
                => UpdateRight(id, a[1], a[2], a[3])
       /\ \A id \in 1..MaxNextId :
             (/\ key_op' = KeyOp("delete", delete_result(entries, id))
              /\ CallDelete(id, TRUE)) => DeleteRight(id)]_vars

\* an update has succeeded on a store of two entries of which one has the new
\* key and the other is as add made it, and the file holds both
C37_Witness ==
    /\ key_op = KeyOp("update", "Ok")
    /\ Len(entries) = 2
    /\ \E i, j \in 1..2 :
          /\ entries[i].key = <<"b">> /\ entries[i].label = "Default"
          /\ entries[j] = NewEntry(entries[j].id, <<"a">>, "Default")
    /\ keysPath => keysFile = Some([next_id |-> next_id, entries |-> entries])

\* C38: from an empty or migrated store, after any sequence of add, update
\* and delete the ids of the entries are pairwise distinct and smaller than
\* next_id, next_id never decreases, and no entry carries the id of an entry
\* that was deleted.
C38_IdsNeverReused ==
    /\ [](/\ \A i, j \in 1..Len(entries) : i # j => entries[i].id # entries[j].id
          /\ \A i \in 1..Len(entries) : entries[i].id < next_id
          /\ \A i \in 1..Len(entries) : entries[i].id \notin deleted_ids)
    /\ [][next_id' >= next_id]_vars

\* an add has just been made after the entry of the migrated key was deleted
C38_Witness ==
    /\ key_op = KeyOp("add", "Ok")
    /\ deleted_ids = {1}
    /\ Len(entries) = 1
    /\ entries[1].id = 2

(***************************************************************************)
(* Claims about the totals of the usage ledger                             *)
(***************************************************************************)
\* the three global totals of a ledger, in the shape of a group entry
Totals(st) ==
    [input_tokens |-> st.total_input_tokens,
     output_tokens |-> st.total_output_tokens,
     requests |-> st.total_requests]

\* the sums of the entries of one grouping with their keys in S
RECURSIVE SumOver(_, _)
SumOver(map, S) ==
    IF S = {} THEN GroupDefault
    ELSE LET k == CHOOSE x \in S : TRUE
             rest == SumOver(map, S \ {k})
         IN [input_tokens |-> map[k].input_tokens + rest.input_tokens,
             output_tokens |-> map[k].output_tokens + rest.output_tokens,
             requests |-> map[k].requests + rest.requests]

\* the sums of the entries of one grouping
GroupSums(map) == SumOver(map, DOMAIN map)

\* every record behind the totals carried an api_key_id: those made since
\* construction or the last reset, and those behind a loaded snapshot
EveryRecordKeyed ==
    /\ GroupSums(baseStats.by_api_key) = Totals(baseStats)
    /\ \A i \in 1..Len(arrivals) : IsSome(arrivals[i].api_key_id)

\* C39: in a ledger that started empty or was reset, the global totals equal
\* the sums of the by-credential entries and the sums of the by-model entries,
\* and the sums of the by-api-key entries never exceed the totals and equal
\* them when every record carried an api_key_id.
C39_TotalsEqualGroupSums ==
    LET t == Totals(stats)
        k == GroupSums(stats.by_api_key)
    IN /\ GroupSums(stats.by_credential) = t
       /\ GroupSums(stats.by_model) = t
       /\ k.input_tokens <= t.input_tokens
       /\ k.output_tokens <= t.output_tokens
       /\ k.requests <= t.requests
       /\ EveryRecordKeyed => k = t

\* after a restart that loaded a snapshot: two models and two keys have
\* entries, a credential entry holds more than one record, and a record
\* without a key keeps the by-api-key sums below the totals
C39_Witness ==
    /\ nRestarts > 0
    /\ baseStats.total_requests > 0
    /\ Cardinality(DOMAIN stats.by_model) = 2
    /\ Cardinality(DOMAIN stats.by_api_key) = 2
    /\ \E c \in DOMAIN stats.by_credential : stats.by_credential[c].requests > 1
    /\ GroupSums(stats.by_api_key).requests < stats.total_requests

(***************************************************************************)
(* Claims about the API-key store                                          *)
(***************************************************************************)
\* an authenticate result r for key k is right for the store es: it is Some
\* exactly when an enabled entry carries k, and then names such an entry
AuthRight(es, k, r) ==
    /\ IsSome(r) <=> \E i \in 1..Len(es) : ~es[i].disabled /\ es[i].key = k
    /\ IsSome(r) => \E i \in 1..Len(es) :
                      /\ es[i].id = Unwrap(r).id
                      /\ ~es[i].disabled
                      /\ es[i].key = k

\* C1: after any sequence of add, update and delete (and restarts),
\* authenticate(k) succeeds iff some entry with disabled = false has key k,
\* and the id it returns is the id of such an entry; so the id of an entry
\* that was disabled or deleted is never returned by a later call.
C1_AuthenticateExactlyEnabled ==
    /\ \A k \in Strs : AuthRight(entries, k, authenticate(entries, k))
    /\ IsSome(authResp) =>
          AuthRight(entries, Unwrap(authResp).key, Unwrap(authResp).res)

\* a call accepted through an enabled entry although a disabled entry with
\* the same key precedes it in the store
C1_Witness ==
    /\ IsSome(authResp)
    /\ IsSome(Unwrap(authResp).res)
    /\ \E i \in 1..Len(entries) :
          /\ entries[i].disabled
          /\ entries[i].key = Unwrap(authResp).key
          /\ entries[i].id < Unwrap(Unwrap(authResp).res).id
====
